---- MODULE Spec2Model ----
(***************************************************************************)
(* A model of azure-ai-foundry-agents-deep-research.  Its components:      *)
(*   - ResearchService._conduct_research_sync and its helpers, the         *)
(*     ResearchRequest, the research logs and the executor of the service  *)
(*     (src/azure_ai_research/core/research.py);                           *)
(*   - the callers of an attempt (src/azure_ai_research/cli/main.py,       *)
(*     src/azure_ai_research/web/app.py);                                  *)
(*   - the legacy run_deep_research and its superscript conversion         *)
(*     (src/research_core.py);                                             *)
(*   - CitationProcessor (src/azure_ai_research/core/citations.py);        *)
(*   - ThrottledProgressCallback (src/azure_ai_research/web/callbacks.py); *)
(*   - ThreadSafeSessionManager (src/azure_ai_research/web/session.py) and *)
(*     the web flow of one browser session: the buttons, the workers and   *)
(*     the completion timers (src/azure_ai_research/web/app.py);           *)
(*   - the references section of the legacy research report                *)
(*     (src/research_core.py);                                             *)
(*   - SecureFileHandler, with one caller and with two concurrent writers, *)
(*     and its validation and sanitization                                 *)
(*     (src/azure_ai_research/infrastructure/file_system.py,               *)
(*     src/azure_ai_research/security/validation.py).                      *)
(* Each component has its own specification; the variables of the other    *)
(* components stay at their idle values.                                   *)
(*                                                                         *)
(* Text is a sequence of one-character strings; a formatted message        *)
(* (an f-string) is the sequence of its fragments.  An optional value is a *)
(* sequence of length 0 (None) or 1.                                       *)
(***************************************************************************)
EXTENDS Integers, Sequences, FiniteSets, TLC

VARIABLES
    \* ---- one call of ResearchService._conduct_research_sync
    request,            \* the ResearchRequest
    progress_callback,  \* "none", "reliable", or "faulty" (may raise when invoked)
    pc,                 \* where the call stands
    future,             \* the Future of conduct_research_async, "none" for a sync call
    cancelled_at,       \* where the task stood when cancel() was called, or "never"
    client,             \* AzureClientProvider._client is set
    remote_agents,      \* the agents the remote service holds, in listing order
    listed_agents,      \* what list_agents returned to agent discovery
    agent, thread, run, \* the locals of the call: None or Some(object)
    iteration,          \* the loop counter of _execute_research
    messages,           \* what messages.list returned
    result_content,     \* what _execute_research returned
    exc,                \* the exception the except branch caught
    result,             \* the ResearchResult returned
    events,             \* the progress events the callback accepted
    created,            \* remote objects this call created
    polls,              \* run status fetches of this call
    polls_after_cancel, \* those made after cancel() was called on a polling task
    remote_failed,      \* a call of the remote service raised
    \* ---- one call of run_deep_research (src/research_core.py)
    rdr_pc,                 \* where the call stands
    rdr_progress_callback,  \* "none" or "reliable"
    rdr_agent, rdr_thread,  \* None or Some(object)
    rdr_run,                \* None or Some(run)
    rdr_iteration_count,    \* iteration_count
    rdr_last_message_id,    \* last_message_id: None or Some(id)
    rdr_progress_calls,     \* invocations of progress_callback
    rdr_progress_writes,    \* appends to the progress file
    rdr_report,             \* the report file: None or Some(id of the message it was made of)
    rdr_completion_calls,   \* invocations of completion_callback
    rdr_deleted,            \* agent ids passed to delete_agent
    rdr_returned,           \* the returned pair: None or Some(<<progress file, report file>>)
    rdr_fetched,            \* the latest fetch: None or Some(the response, new_content_found)
    \* ---- one ThrottledProgressCallback (src/azure_ai_research/web/callbacks.py)
    clock,                  \* datetime.now().timestamp(), in quarters of a second
    last_call_time,         \* self.last_call_time, in quarters of a second
    last_progress,          \* self.last_progress, in hundredths
    producers,              \* per producer thread: where its __call__ stands, its arguments
    calls,                  \* the calls in the order they held the lock
    decision,               \* the latest pass through the locked block: None or Some(record)
    \* ---- one SecureFileHandler (src/azure_ai_research/infrastructure/file_system.py)
    platform,               \* "posix" or "nt": what os.rename does to an existing target
    file_path,              \* the file_path argument of the calls
    files,                  \* the files at validated_path, the temporary and the backup path
    fs_pc,                  \* where the call stands
    fs_op,                  \* the call: its name and arguments
    fs_data,                \* what is to be written: None or Some(document)
    fs_entry,               \* the file at validated_path when the call began
    fs_prev,                \* the call before this one, if it returned: None or Some(call)
    fs_ops,                 \* calls made so far
    fs_value,               \* the value returned or the exception raised: None or Some(x)
    fs_touched,             \* the call has read or changed the file system
    \* ---- the research logs of one ResearchService (research.py, lines 343-381)
    log_clock,              \* datetime.now(), in seconds
    log_dir,                \* the regular files of the log directory: name and document
    log_held,               \* the ResearchResult the caller holds in memory
    log_call,               \* the latest call and its outcome: None or Some(record)
    \* ---- the caller of one research attempt (cli/main.py, web/app.py)
    app_pc,                 \* "waiting" for the attempt, or "handled"
    app_saves,              \* calls of save_research_log that stored the result
    \* ---- the validation of one query and the making of its ResearchRequest
    rq_args,                \* the query, max_iterations and timeout_seconds given
    rq_pc,                  \* where the caller stands
    rq_validated,           \* what the caller's validate_research_query returned
    rq_request,             \* the ResearchRequest instance: None or Some(instance)
    rq_error,               \* the exception raised: None or Some(exception)
    \* ---- one call of CitationProcessor.extract_citations
    cit_limit,              \* self.max_citations of the CitationProcessor
    cit_candidates,         \* the matches of the patterns, in the order of the loops
    cit_pos,                \* matches handled so far
    cit_citations,          \* the list `citations`
    cit_index,              \* citation_index
    cit_returned,           \* the list returned: None or Some(list)
    \* ---- one conversion of citation markers to superscript
    sup_content,            \* the content given
    sup_output,             \* None, or the function applied and the text it returned
    \* ---- the executions of one ResearchService
    ex_tasks,               \* per caller: where its request stands
    ex_queue,               \* the work queue of the ThreadPoolExecutor
    \* ---- two threads in _atomic_write_json on one path
    writers,                \* per writer: where it stands, its temporary file, its offset, its order
    wr_target,              \* the file at file_path: None or Some(blocks)
    \* ---- one ThreadSafeSessionManager (src/azure_ai_research/web/session.py)
    session,                \* st.session_state.app_state: the SessionState
    ses_lock,               \* self._lock: None or Some(the thread that holds it)
    ses_threads,            \* per thread: the method it is in and where it stands
    ses_added,              \* the messages added since the latest clear, in order
    ses_count,              \* calls of add_progress_message so far
    \* ---- the web flow of one browser session (app.py, callbacks.py)
    web_runs,               \* per started research: its worker, its timer, what was seen
    web_clicks,             \* presses of Stop Research, Clear Session and the log buttons
    \* ---- the references section of one research report (src/research_core.py)
    ref_annotations,        \* message.url_citation_annotations
    ref_written             \* None, or Some(the numbered lines written under "## Citations")

\* ------------------------------------------------------------------ bounds

\* Largest max_iterations a modelled request carries (the code allows 1..50).
MaxIterations == 3
\* Seconds of the clock of the log directory.
MaxLogClock == 3
\* Threads that ask one ResearchService for research.
MaxCallers == 3
\* Characters of the longest query that is built of QueryChars.
MaxQueryLen == 5
\* Matches of the citation patterns in one content.
MaxMatches == 3
\* Tokens of the longest content that is built of ContentTokens.
MaxContentLen == 5
\* Calls of add_progress_message on one session manager.
MaxAdds == 22
\* Researches one browser session starts, the progress reports below 1.0 of
\* each, and the presses of the other buttons.
MaxWebRuns == 2
\* Citation annotations of the final message.
MaxAnnotations == 3
MaxWebEvents == 1
MaxWebClicks == 1
\* Largest number of messages the remote returns for a thread.
MaxMessages == 3
\* Polls after which the model stops following run_deep_research's loop.
PollCap == 52

\* ResearchRequest.__post_init__: max_iterations must not exceed this.
MaxIterationsLimit == 50

\* sanitize_log_entry: a top-level string longer than this is truncated.
MaxValueLength == 10000
\* timeout_seconds of a ResearchRequest is at most this.
MaxTimeoutSeconds == 3600
\* max_length of validate_research_query, and config.security.max_input_length.
MaxQueryLength == 10000
max_input_length == 10000
\* A query holds at least this many characters once it is sanitized.
MinQueryLength == 3
\* CitationProcessor.max_citations
max_citations == 50
\* ThreadPoolExecutor(max_workers=2) of ResearchService.__init__
max_workers == 2
\* time.sleep(2) of the poll loop of _execute_research
poll_pause == 2
\* add_progress_message keeps this many messages
max_progress_messages == 20

\* Calls one ThrottledProgressCallback receives.
MaxCalls == 4
\* Calls one SecureFileHandler receives, and the longest path text drawn in full.
MaxFileOps == 2
MaxPathLen == 3
\* The clock when the first call arrives, and how far the model lets it advance.
ClockStart == 4
ClockTicks == 2

None == <<>>
Some(x) == <<x>>

\* ------------------------------------------------------------------ text

IsSpace(c) == c = " "
IsDigit(c) == c \in {"0", "1", "2", "3", "4", "5", "6", "7", "8", "9"}
\* \w of the re module: letters, digits, underscore. "a..a" stands for a run
\* of MaxValueLength letters a.
IsWord(c) ==
    \/ c \in {"a", "b", "c", "d", "e", "f", "g", "h", "i", "j", "k", "l", "m", "n", "o",
              "p", "q", "r", "s", "t", "u", "v", "w", "x", "y", "z", "N", "O", "_", "a..a"}
    \/ IsDigit(c)

RECURSIVE LStrip(_)
LStrip(s) == IF s # <<>> /\ IsSpace(Head(s)) THEN LStrip(Tail(s)) ELSE s

RECURSIVE RStrip(_)
RStrip(s) ==
    IF s # <<>> /\ IsSpace(s[Len(s)]) THEN RStrip(SubSeq(s, 1, Len(s) - 1)) ELSE s

\* str.strip()
Strip(s) == RStrip(LStrip(s))

\* Number of leading characters of s that satisfy the class test.
RECURSIVE SpanSpaces(_)
SpanSpaces(s) == IF s # <<>> /\ IsSpace(Head(s)) THEN 1 + SpanSpaces(Tail(s)) ELSE 0

RECURSIVE SpanDigits(_)
SpanDigits(s) == IF s # <<>> /\ IsDigit(Head(s)) THEN 1 + SpanDigits(Tail(s)) ELSE 0

Drop(s, n) == SubSeq(s, n + 1, Len(s))

\* re.sub(r'\[(\d+)\]', r'<sup>[\1]</sup>', content)
RECURSIVE BracketsToSuperscript(_)
BracketsToSuperscript(s) ==
    IF s = <<>> THEN <<>>
    ELSE LET d == SpanDigits(Tail(s))
         IN IF Head(s) = "[" /\ d >= 1 /\ Len(s) >= d + 2 /\ s[d + 2] = "]"
            THEN <<"<sup>">> \o SubSeq(s, 1, d + 2) \o <<"</sup>">>
                 \o BracketsToSuperscript(Drop(s, d + 2))
            ELSE <<Head(s)>> \o BracketsToSuperscript(Tail(s))

\* re.sub(r'(\w)\s*(\d+)(?=\s*[\.!?])', r'\1<sup>\2</sup>', content)
RECURSIVE TrailingNumbersToSuperscript(_)
TrailingNumbersToSuperscript(s) ==
    IF s = <<>> THEN <<>>
    ELSE LET sp == SpanSpaces(Tail(s))
             d == SpanDigits(Drop(s, 1 + sp))
             rest == Drop(s, 1 + sp + d)
             look == Drop(rest, SpanSpaces(rest))
         IN IF IsWord(Head(s)) /\ d >= 1 /\ look # <<>> /\ Head(look) \in {".", "!", "?"}
            THEN <<Head(s), "<sup>">> \o SubSeq(s, 2 + sp, 1 + sp + d) \o <<"</sup>">>
                 \o TrailingNumbersToSuperscript(rest)
            ELSE <<Head(s)>> \o TrailingNumbersToSuperscript(Tail(s))

\* CitationProcessor.convert_to_superscript
convert_to_superscript(content) ==
    IF content = <<>> THEN content
    ELSE TrailingNumbersToSuperscript(BracketsToSuperscript(content))

\* ------------------------------------------------------------ exceptions

RemoteFaults == {"HttpResponseError", "ServiceRequestError"}

\* An exception raised by a call of the remote service; str(e) is its name.
RemoteError(fault) == [type |-> fault, msg |-> <<fault>>]

CallbackError == [type |-> "RuntimeError", msg |-> <<"callback failed">>]

AzureClientError(msg) == [type |-> "AzureClientError", msg |-> msg]

\* get_client_context: an AzureClientError passes, anything else is wrapped.
get_client_context_exit(e) ==
    IF e.type = "AzureClientError" THEN e
    ELSE AzureClientError(<<"Unexpected error: ">> \o e.msg)

\* get_client -> _create_client -> _test_connection returning False.
create_client_failure ==
    AzureClientError(<<"Failed to create Azure client: ", "Failed to create Azure client: ",
                       "Failed to establish connection to Azure AI Project">>)

get_research_agent_failure(e) ==
    AzureClientError(<<"Failed to get research agent: ">> \o e.msg)

create_research_thread_failure(e) ==
    AzureClientError(<<"Failed to create research thread: ">> \o e.msg)

execute_research_failure(e) ==
    AzureClientError(<<"Failed to execute research: ">> \o e.msg)

\* ------------------------------------------------------------- run status

RunStatus == {"queued", "in_progress", "requires_action", "completed",
              "failed", "cancelled", "expired"}

LastErrors == {"None", "server_error", "rate_limit_exceeded"}

\* _execute_research: elif run.status in ["failed", "cancelled", "expired"]
is_terminal_failure(status) == status \in {"failed", "cancelled", "expired"}

\* raise AzureClientError(f"Research run {run.status}: {run.last_error}")
run_terminal_failure(r) ==
    AzureClientError(<<"Research run ", r.status, ": ", r.last_error>>)

\* A faulty variant: the exhausted budget is reported with the message of a failed run.
run_budget_reported_as_run_failure(n) ==
    AzureClientError(<<"Research run ", "expired", ": ", "None">>)

\* raise AzureClientError(f"Research did not complete within {n} iterations")
run_budget_exceeded(n) ==
    AzureClientError(<<"Research did not complete within ", ToString(n), " iterations">>)

\* while iteration < request.max_iterations
loop_continues(i, max_iterations) == i < max_iterations

\* A faulty variant: the fraction of the budget is taken after the increment.
poll_progress_counts_from_one(i, max_iterations) ==
    [num |-> 2 * max_iterations + 7 * (i + 1), den |-> 10 * max_iterations]

\* progress = 0.2 + (iteration / request.max_iterations) * 0.7, as a fraction
poll_progress(i, max_iterations) ==
    [num |-> 2 * max_iterations + 7 * i, den |-> 10 * max_iterations]

Progress(tenths) == [num |-> tenths, den |-> 10]

\* ------------------------------------------------------ assistant content

\* for content_item in message.content: if hasattr(content_item, 'text'): content += ...
RECURSIVE message_text(_)
message_text(items) ==
    IF items = <<>> THEN <<>>
    ELSE (IF Head(items).kind = "text" THEN Head(items).value ELSE <<>>)
         \o message_text(Tail(items))

\* A faulty variant: the role of the message is not looked at.
RECURSIVE find_content_of_any_role(_)
find_content_of_any_role(msgs) ==
    IF msgs = <<>> THEN None
    ELSE LET content == message_text(Head(msgs).content)
         IN IF Strip(content) # <<>> THEN Some(Strip(content))
            ELSE find_content_of_any_role(Tail(msgs))

\* The first assistant message, in listing order, whose text is not blank:
\* Some(content.strip()), or None when the loop falls through to the raise.
RECURSIVE find_assistant_content(_)
find_assistant_content(msgs) ==
    IF msgs = <<>> THEN None
    ELSE LET m == Head(msgs)
             content == message_text(m.content)
         IN IF m.role = "assistant" /\ Strip(content) # <<>>
            THEN Some(Strip(content))
            ELSE find_assistant_content(Tail(msgs))

no_content_found == AzureClientError(<<"No research content found in agent response">>)

\* ----------------------------------------------------------- the results

\* _conduct_research_sync, lines 168-190: the result of a run that produced content.
success_result(req, agt, thr, content) ==
    [content |-> IF req.enable_citations THEN convert_to_superscript(content) ELSE content,
     metadata |-> [agent_id |-> agt.id, thread_id |-> thr.id,
                   query |-> req.query, max_iterations |-> req.max_iterations],
     success |-> TRUE,
     error_message |-> None]

\* _conduct_research_sync, lines 203 and 213-220: the result of the except branch.
failure_result(req, e) ==
    [content |-> <<>>,
     metadata |-> [query |-> req.query],
     success |-> FALSE,
     error_message |-> Some(<<"Research failed: ">> \o e.msg)]

\* ------------------------------------------------------- agent discovery

\* str.lower() on the words agent names are made of.
Lower(w) ==
    CASE w = "Deep" -> "deep" [] w = "Research" -> "research"
      [] w = "Agent" -> "agent" [] w = "Bot" -> "bot"
      [] w = "JSON" -> "json" [] w = "N" -> "n" [] w = "O" -> "o"
      [] w = "JavaScript:" -> "javascript:" [] OTHER -> w

LowerName(name) == [i \in 1..Len(name) |-> Lower(name[i])]

\* pat in text
Contains(text, pat) ==
    \E i \in 1..(Len(text) - Len(pat) + 1) : SubSeq(text, i, i + Len(pat) - 1) = pat

\* if "deep-research" in agent.name.lower()
is_research_agent(a) == Contains(LowerName(a.name), <<"deep", "-", "research">>)

\* A faulty variant: only the first listed agent is looked at.
find_research_agent_first_only(agents) ==
    IF agents # <<>> /\ is_research_agent(Head(agents)) THEN Some(Head(agents)) ELSE None

\* for agent in agents: if ...: return agent
RECURSIVE find_research_agent(_)
find_research_agent(agents) ==
    IF agents = <<>> THEN None
    ELSE IF is_research_agent(Head(agents)) THEN Some(Head(agents))
    ELSE find_research_agent(Tail(agents))

\* client.agents.create_agent(..., name="Deep Research Agent", ...)
new_research_agent(id) == [id |-> id, name |-> <<"Deep", " ", "Research", " ", "Agent">>]

MyAgent(id) == [id |-> id, name |-> <<"my", "-", "agent">>]
ResearchBot(id) == [id |-> id, name |-> <<"Deep", "-", "Research", "-", "Bot">>]

\* What the remote service may hold when a call starts.
InitialAgentLists ==
    { <<>>, <<MyAgent(1)>>, <<MyAgent(1), ResearchBot(2)>>, <<new_research_agent(1)>> }

\* ------------------------------------------------------- thread messages

TextItem(v) == [kind |-> "text", value |-> v]
ImageItem == [kind |-> "image_file", value |-> <<>>]
Message(role, content) == [role |-> role, content |-> content]

\* What messages.list may return to a call, most recent first.
ThreadMessagePool ==
    { <<>>,
      <<Message("user", <<TextItem(<<"a">>)>>)>>,
      <<Message("assistant", <<TextItem(<<" ", "a", "[", "1", "]", " ">>)>>),
        Message("user", <<TextItem(<<"a">>)>>)>>,
      <<Message("assistant", <<ImageItem, TextItem(<<" ">>)>>),
        Message("assistant", <<TextItem(<<"b", " ", "2", ".">>)>>)>> }

\* --------------------------------------------- _conduct_research_sync

svcVars == <<request, progress_callback, pc, future, cancelled_at, client, remote_agents,
             listed_agents, agent, thread, run, iteration, messages, result_content,
             exc, result, events, created, polls, polls_after_cancel, remote_failed>>

Query == <<"a">>

\* timeout_seconds of the modelled requests: the least the constructor
\* accepts, and the default.
Timeouts == {1, 300}

\* Seconds an execution has spent in time.sleep(2) after `passes` passes of
\* the poll loop: its elapsed time is at least this.
slept_seconds(passes) == poll_pause * passes

SvcStart ==
    /\ request \in [query : {Query}, max_iterations : 1..MaxIterations,
                    timeout_seconds : Timeouts, enable_citations : BOOLEAN]
    /\ progress_callback \in {"none", "reliable", "faulty"}
    /\ pc = "idle"
    /\ future = "none"
    /\ cancelled_at = "never"
    /\ client \in BOOLEAN
    /\ remote_agents \in InitialAgentLists
    /\ listed_agents = None
    /\ agent = None /\ thread = None /\ run = None
    /\ iteration = 0
    /\ messages = None
    /\ result_content = None
    /\ exc = None
    /\ result = None
    /\ events = <<>>
    /\ created = [agents |-> 0, threads |-> 0, messages |-> 0, runs |-> 0]
    /\ polls = 0
    /\ polls_after_cancel = 0
    /\ remote_failed = FALSE

\* What an invocation of the progress callback may do.
CallbackOutcomes ==
    CASE progress_callback = "none" -> {"skipped"}
      [] progress_callback = "reliable" -> {"delivered"}
      [] OTHER -> {"delivered", "raised"}

Delivered(o, message, progress) ==
    IF o = "delivered" THEN Append(events, [message |-> message, progress |-> progress])
    ELSE events

\* The worker thread hands the outcome of the task to its future.
FutureDone == IF future = "running" THEN "finished" ELSE future

\* conduct_research_sync: the caller's thread runs the call.
conduct_research_sync ==
    /\ pc = "idle" /\ future = "none"
    /\ pc' = "start"
    /\ UNCHANGED <<request, progress_callback, future, cancelled_at, client, remote_agents,
                   listed_agents, agent, thread, run, iteration, messages, result_content,
                   exc, result, events, created, polls, polls_after_cancel, remote_failed>>

\* conduct_research_async: the task is queued on the executor.
conduct_research_async ==
    /\ pc = "idle" /\ future = "none"
    /\ future' = "pending"
    /\ UNCHANGED <<request, progress_callback, pc, cancelled_at, client, remote_agents,
                   listed_agents, agent, thread, run, iteration, messages, result_content,
                   exc, result, events, created, polls, polls_after_cancel, remote_failed>>

\* A worker of the ThreadPoolExecutor takes the pending task.
worker_run ==
    /\ future = "pending"
    /\ future' = "running"
    /\ pc' = "start"
    /\ UNCHANGED <<request, progress_callback, cancelled_at, client, remote_agents,
                   listed_agents, agent, thread, run, iteration, messages, result_content,
                   exc, result, events, created, polls, polls_after_cancel, remote_failed>>

\* _stop_research: self.research_future.cancel(). A pending future is cancelled;
\* a running or finished one is left as it is (cancel() returns False).
\* cancelled_at records "polling" for a running task that stands in its poll loop.
future_cancel ==
    /\ future # "none" /\ cancelled_at = "never"
    /\ cancelled_at' = IF future = "running" /\ pc = "poll" THEN "polling" ELSE future
    /\ future' = IF future = "pending" THEN "cancelled" ELSE future
    /\ UNCHANGED <<request, progress_callback, pc, client, remote_agents,
                   listed_agents, agent, thread, run, iteration, messages, result_content,
                   exc, result, events, created, polls, polls_after_cancel, remote_failed>>

\* progress_callback("Starting research...", 0.0, ...), outside the client context.
notify_starting ==
    /\ pc = "start"
    /\ \E o \in CallbackOutcomes :
         IF o = "raised"
         THEN exc' = Some(CallbackError) /\ pc' = "except" /\ events' = events
         ELSE exc' = exc /\ pc' = "get_client"
              /\ events' = Delivered(o, "Starting research...", Progress(0))
    /\ UNCHANGED <<request, progress_callback, future, cancelled_at, client, remote_agents,
                   listed_agents, agent, thread, run, iteration, messages, result_content,
                   result, created, polls, polls_after_cancel, remote_failed>>

\* get_client_context up to the yield: get_client (which creates the client and
\* tests the connection by listing the agents when none is cached), validate_connection.
get_client_context ==
    /\ pc = "get_client"
    /\ \/ /\ client
          /\ pc' = "get_research_agent"
          /\ UNCHANGED <<client, exc, remote_failed>>
       \/ /\ ~client
          /\ client' = TRUE /\ pc' = "get_research_agent"
          /\ UNCHANGED <<exc, remote_failed>>
       \/ /\ ~client
          /\ remote_failed' = TRUE
          /\ exc' = Some(create_client_failure) /\ pc' = "except"
          /\ UNCHANGED client
    /\ UNCHANGED <<request, progress_callback, future, cancelled_at, remote_agents,
                   listed_agents, agent, thread, run, iteration, messages, result_content,
                   result, events, created, polls, polls_after_cancel>>

\* An exception raised inside the body of `with get_client_context() as client`.
RaiseInContext(e) ==
    /\ exc' = Some(get_client_context_exit(e))
    /\ pc' = "except"

\* _get_research_agent up to the decision to create: list the agents and take
\* the first one whose name matches.
get_research_agent ==
    /\ pc = "get_research_agent"
    /\ \/ \E f \in RemoteFaults :
            /\ RaiseInContext(get_research_agent_failure(RemoteError(f)))
            /\ remote_failed' = TRUE
            /\ UNCHANGED <<listed_agents, agent>>
       \/ /\ listed_agents' = Some(remote_agents)
          /\ agent' = find_research_agent(remote_agents)
          /\ pc' = IF agent' = None THEN "create_agent" ELSE "notify_agent_ready"
          /\ UNCHANGED <<exc, remote_failed>>
    /\ UNCHANGED <<request, progress_callback, future, cancelled_at, client, remote_agents,
                   thread, run, iteration, messages, result_content,
                   result, events, created, polls, polls_after_cancel>>

\* _get_research_agent, no agent found: connections.get, then agents.create_agent.
create_agent ==
    /\ pc = "create_agent"
    /\ \/ \E f \in RemoteFaults :
            /\ RaiseInContext(get_research_agent_failure(RemoteError(f)))
            /\ remote_failed' = TRUE
            /\ UNCHANGED <<agent, remote_agents, created>>
       \/ LET a == new_research_agent(Len(remote_agents) + 1)
          IN /\ remote_agents' = Append(remote_agents, a)
             /\ created' = [created EXCEPT !.agents = @ + 1]
             /\ agent' = Some(a)
             /\ pc' = "notify_agent_ready"
             /\ UNCHANGED <<exc, remote_failed>>
    /\ UNCHANGED <<request, progress_callback, future, cancelled_at, client,
                   listed_agents, thread, run, iteration, messages, result_content,
                   result, events, polls, polls_after_cancel>>

\* progress_callback("Agent ready, creating thread...", 0.1, ...)
notify_agent_ready ==
    /\ pc = "notify_agent_ready"
    /\ \E o \in CallbackOutcomes :
         IF o = "raised"
         THEN RaiseInContext(CallbackError) /\ events' = events
         ELSE exc' = exc /\ pc' = "create_thread"
              /\ events' = Delivered(o, "Agent ready, creating thread...", Progress(1))
    /\ UNCHANGED <<request, progress_callback, future, cancelled_at, client, remote_agents,
                   listed_agents, agent, thread, run, iteration, messages, result_content,
                   result, created, polls, polls_after_cancel, remote_failed>>

\* _create_research_thread: threads.create, then messages.create with the query.
create_research_thread ==
    /\ pc = "create_thread"
    /\ \/ \E f \in RemoteFaults :
            /\ RaiseInContext(create_research_thread_failure(RemoteError(f)))
            /\ remote_failed' = TRUE
            /\ UNCHANGED <<thread, created>>
       \/ \E f \in RemoteFaults :
            /\ created' = [created EXCEPT !.threads = @ + 1]
            /\ RaiseInContext(create_research_thread_failure(RemoteError(f)))
            /\ remote_failed' = TRUE
            /\ UNCHANGED thread
       \/ /\ created' = [created EXCEPT !.threads = @ + 1, !.messages = @ + 1]
          /\ thread' = Some([id |-> created.threads + 1])
          /\ pc' = "notify_thread_created"
          /\ UNCHANGED <<exc, remote_failed>>
    /\ UNCHANGED <<request, progress_callback, future, cancelled_at, client, remote_agents,
                   listed_agents, agent, run, iteration, messages, result_content,
                   result, events, polls, polls_after_cancel>>

\* progress_callback("Thread created, starting research...", 0.2, ...)
notify_thread_created ==
    /\ pc = "notify_thread_created"
    /\ \E o \in CallbackOutcomes :
         IF o = "raised"
         THEN RaiseInContext(CallbackError) /\ events' = events
         ELSE exc' = exc /\ pc' = "create_run"
              /\ events' = Delivered(o, "Thread created, starting research...", Progress(2))
    /\ UNCHANGED <<request, progress_callback, future, cancelled_at, client, remote_agents,
                   listed_agents, agent, thread, run, iteration, messages, result_content,
                   result, created, polls, polls_after_cancel, remote_failed>>

\* _execute_research: runs.create, iteration = 0, and the first test of the loop.
create_run ==
    /\ pc = "create_run"
    /\ \/ \E f \in RemoteFaults :
            /\ RaiseInContext(execute_research_failure(RemoteError(f)))
            /\ remote_failed' = TRUE
            /\ UNCHANGED <<run, created, iteration>>
       \/ /\ created' = [created EXCEPT !.runs = @ + 1]
          /\ run' = Some([id |-> created.runs + 1, status |-> "queued", last_error |-> "None"])
          /\ iteration' = 0
          /\ pc' = IF loop_continues(0, request.max_iterations) THEN "poll" ELSE "after_loop"
          /\ UNCHANGED <<exc, remote_failed>>
    /\ UNCHANGED <<request, progress_callback, future, cancelled_at, client, remote_agents,
                   listed_agents, agent, thread, messages, result_content,
                   result, events, polls, polls_after_cancel>>

\* One pass of the while loop of _execute_research: runs.get, the status tests,
\* the progress callback, iteration += 1, and the next test of the loop.
poll_run ==
    /\ pc = "poll"
    /\ \/ \E f \in RemoteFaults :
            /\ RaiseInContext(execute_research_failure(RemoteError(f)))
            /\ remote_failed' = TRUE
            /\ UNCHANGED <<run, iteration, events, polls, polls_after_cancel>>
       \/ \E s \in RunStatus, le \in LastErrors :
            /\ is_terminal_failure(s) \/ le = "None"
            /\ run' = Some([run[1] EXCEPT !.status = s, !.last_error = le])
            /\ polls' = polls + 1
            /\ polls_after_cancel' =
                   IF cancelled_at = "polling" THEN polls_after_cancel + 1
                   ELSE polls_after_cancel
            /\ UNCHANGED remote_failed
            /\ IF s = "completed"
               THEN pc' = "after_loop" /\ UNCHANGED <<exc, iteration, events>>
               ELSE IF is_terminal_failure(s)
               THEN /\ RaiseInContext(execute_research_failure(run_terminal_failure(run'[1])))
                    /\ UNCHANGED <<iteration, events>>
               ELSE \E o \in CallbackOutcomes :
                      IF o = "raised"
                      THEN /\ RaiseInContext(execute_research_failure(CallbackError))
                           /\ UNCHANGED <<iteration, events>>
                      ELSE /\ events' = Delivered(o, "Research in progress...",
                                            poll_progress(iteration, request.max_iterations))
                           /\ iteration' = iteration + 1
                           /\ pc' = IF loop_continues(iteration + 1, request.max_iterations)
                                    THEN "poll" ELSE "after_loop"
                           /\ exc' = exc
    /\ UNCHANGED <<request, progress_callback, future, cancelled_at, client, remote_agents,
                   listed_agents, agent, thread, messages, result_content,
                   result, created>>

\* if run.status != "completed": raise AzureClientError("... did not complete ...")
after_loop ==
    /\ pc = "after_loop"
    /\ IF run[1].status # "completed"
       THEN RaiseInContext(execute_research_failure(run_budget_exceeded(request.max_iterations)))
       ELSE pc' = "list_messages" /\ exc' = exc
    /\ UNCHANGED <<request, progress_callback, future, cancelled_at, client, remote_agents,
                   listed_agents, agent, thread, run, iteration, messages, result_content,
                   result, events, created, polls, polls_after_cancel, remote_failed>>

\* messages.list and the search for the assistant's response; the remote
\* returns one of the listings of `pool`.
list_messages_from(pool) ==
    /\ pc = "list_messages"
    /\ \/ \E f \in RemoteFaults :
            /\ RaiseInContext(execute_research_failure(RemoteError(f)))
            /\ remote_failed' = TRUE
            /\ UNCHANGED <<messages, result_content>>
       \/ \E msgs \in pool :
            /\ messages' = Some(msgs)
            /\ UNCHANGED remote_failed
            /\ IF find_assistant_content(msgs) = None
               THEN /\ RaiseInContext(execute_research_failure(no_content_found))
                    /\ UNCHANGED result_content
               ELSE /\ result_content' = find_assistant_content(msgs)
                    /\ pc' = "notify_processing"
                    /\ exc' = exc
    /\ UNCHANGED <<request, progress_callback, future, cancelled_at, client, remote_agents,
                   listed_agents, agent, thread, run, iteration,
                   result, events, created, polls, polls_after_cancel>>

list_messages == list_messages_from(ThreadMessagePool)

\* The contents a message of the thread may have.
MessageContents ==
    { <<>>,
      <<TextItem(<<" ">>)>>,
      <<ImageItem, TextItem(<<" ", "a", " ">>)>>,
      <<TextItem(<<"a", "[", "1", "]">>)>>,
      <<TextItem(<<"b", " ">>), TextItem(<<"2", ".">>)>> }

ThreadMessages == {Message(r, c) : r \in {"assistant", "user"}, c \in MessageContents}

\* Every listing of at most MaxMessages messages.
ThreadMessageLists == UNION {[1..n -> ThreadMessages] : n \in 0..MaxMessages}

\* progress_callback("Research completed, processing results...", 0.9)
notify_processing ==
    /\ pc = "notify_processing"
    /\ \E o \in CallbackOutcomes :
         IF o = "raised"
         THEN RaiseInContext(CallbackError) /\ events' = events
         ELSE exc' = exc /\ pc' = "complete"
              /\ events' = Delivered(o, "Research completed, processing results...", Progress(9))
    /\ UNCHANGED <<request, progress_callback, future, cancelled_at, client, remote_agents,
                   listed_agents, agent, thread, run, iteration, messages, result_content,
                   result, created, polls, polls_after_cancel, remote_failed>>

\* Lines 168-199: the citations, the result, the last progress callback, the return.
complete ==
    /\ pc = "complete"
    /\ \E o \in CallbackOutcomes :
         IF o = "raised"
         THEN RaiseInContext(CallbackError) /\ UNCHANGED <<events, result, future>>
         ELSE /\ events' = Delivered(o, "Research completed successfully!", Progress(10))
              /\ result' = Some(success_result(request, agent[1], thread[1], result_content[1]))
              /\ pc' = "returned"
              /\ future' = FutureDone
              /\ exc' = exc
    /\ UNCHANGED <<request, progress_callback, cancelled_at, client, remote_agents,
                   listed_agents, agent, thread, run, iteration, messages, result_content,
                   created, polls, polls_after_cancel, remote_failed>>

\* A faulty variant: the except branch reports and raises again instead of returning.
handle_exception_reraise ==
    /\ pc = "except"
    /\ pc' = "raised"
    /\ future' = FutureDone
    /\ UNCHANGED <<request, progress_callback, cancelled_at, client, remote_agents,
                   listed_agents, agent, thread, run, iteration, messages, result_content,
                   exc, result, events, created, polls, polls_after_cancel, remote_failed>>

\* A faulty variant: the except branch returns its result and reports nothing.
handle_exception_unreported ==
    /\ pc = "except"
    /\ result' = Some(failure_result(request, exc[1]))
    /\ pc' = "returned"
    /\ future' = FutureDone
    /\ UNCHANGED <<request, progress_callback, cancelled_at, client, remote_agents,
                   listed_agents, agent, thread, run, iteration, messages, result_content,
                   exc, events, created, polls, polls_after_cancel, remote_failed>>

\* The except branch, lines 201-220. An exception of the callback leaves the call.
handle_exception ==
    /\ pc = "except"
    /\ \E o \in CallbackOutcomes :
         IF o = "raised"
         THEN pc' = "raised" /\ UNCHANGED <<events, result>>
         ELSE /\ events' = Delivered(o, "Research failed", Progress(10))
              /\ result' = Some(failure_result(request, exc[1]))
              /\ pc' = "returned"
    /\ future' = FutureDone
    /\ UNCHANGED <<request, progress_callback, cancelled_at, client, remote_agents,
                   listed_agents, agent, thread, run, iteration, messages, result_content,
                   exc, created, polls, polls_after_cancel, remote_failed>>

\* ---------------------------------------------------- run_deep_research

rdrVars == <<rdr_pc, rdr_progress_callback, rdr_agent, rdr_thread, rdr_run,
             rdr_iteration_count, rdr_last_message_id, rdr_progress_calls,
             rdr_progress_writes, rdr_report, rdr_completion_calls, rdr_deleted,
             rdr_returned, rdr_fetched>>

tpcVars == <<clock, last_call_time, last_progress, producers, calls, decision>>

fsVars == <<platform, file_path, files, fs_pc, fs_op, fs_data, fs_entry, fs_prev, fs_ops,
            fs_value, fs_touched>>

logVars == <<log_clock, log_dir, log_held, log_call>>

appVars == <<app_pc, app_saves>>

rqVars == <<rq_args, rq_pc, rq_validated, rq_request, rq_error>>

citVars == <<cit_limit, cit_candidates, cit_pos, cit_citations, cit_index, cit_returned>>

supVars == <<sup_content, sup_output>>

exVars == <<ex_tasks, ex_queue>>

wrVars == <<writers, wr_target>>

sesVars == <<session, ses_lock, ses_threads, ses_added, ses_count>>

wfVars == <<web_runs, web_clicks>>

refVars == <<ref_annotations, ref_written>>

vars == <<svcVars, rdrVars, tpcVars, fsVars, logVars, appVars, rqVars, citVars, supVars,
          exVars, wrVars, sesVars, wfVars, refVars>>

\* Ids of the agent messages the remote may hold in the thread.
MessageIds == {1, 2}

\* get_last_message_by_role: None, or the latest agent message; cot says whether
\* one of its texts starts with "cot_summary:".
AgentResponses == {None} \cup {Some([id |-> i, cot |-> c]) : i \in MessageIds, c \in BOOLEAN}

\* while run.status in ("queued", "in_progress")
rdr_loop_continues(status) == status \in {"queued", "in_progress"}

\* A faulty variant: last_message_id is not looked at.
is_cot_summary(response, last_message_id) ==
    /\ response # None
    /\ response[1].cot

\* fetch_and_print_new_agent_response: whether the response is reported.
is_new_cot_summary(response, last_message_id) ==
    /\ response # None
    /\ Some(response[1].id) # last_message_id
    /\ response[1].cot

RdrIdle ==
    /\ rdr_pc = "idle"
    /\ rdr_progress_callback = "none"
    /\ rdr_agent = None /\ rdr_thread = None /\ rdr_run = None
    /\ rdr_iteration_count = 0
    /\ rdr_last_message_id = None
    /\ rdr_progress_calls = 0
    /\ rdr_progress_writes = 0
    /\ rdr_report = None
    /\ rdr_completion_calls = 0
    /\ rdr_deleted = {}
    /\ rdr_returned = None
    /\ rdr_fetched = None

RdrInit ==
    /\ rdr_pc = "setup"
    /\ rdr_progress_callback \in {"none", "reliable"}
    /\ rdr_agent = None /\ rdr_thread = None /\ rdr_run = None
    /\ rdr_iteration_count = 0
    /\ rdr_last_message_id = None
    /\ rdr_progress_calls = 0
    /\ rdr_progress_writes = 0
    /\ rdr_report = None
    /\ rdr_completion_calls = 0
    /\ rdr_deleted = {}
    /\ rdr_returned = None
    /\ rdr_fetched = None

\* Lines 271-303: the project client, telemetry, the progress file, the Bing connection.
rdr_setup ==
    /\ rdr_pc = "setup"
    /\ rdr_pc' \in {"create_agent", "raised"}
    /\ UNCHANGED <<rdr_progress_callback, rdr_agent, rdr_thread, rdr_run,
                   rdr_iteration_count, rdr_last_message_id, rdr_fetched, rdr_progress_calls,
                   rdr_progress_writes, rdr_report, rdr_completion_calls, rdr_deleted,
                   rdr_returned>>

\* Lines 315-337: create_agent, threads.create, messages.create. None looks for
\* an existing agent; an exception of any of them leaves the call.
rdr_create_agent ==
    /\ rdr_pc = "create_agent"
    /\ \/ rdr_pc' = "raised" /\ UNCHANGED <<rdr_agent, rdr_thread>>
       \/ rdr_agent' = Some(MyAgent(1)) /\ rdr_pc' = "raised" /\ UNCHANGED rdr_thread
       \/ rdr_agent' = Some(MyAgent(1)) /\ rdr_thread' = Some([id |-> 1]) /\ rdr_pc' = "raised"
       \/ rdr_agent' = Some(MyAgent(1)) /\ rdr_thread' = Some([id |-> 1]) /\ rdr_pc' = "create_run"
    /\ UNCHANGED <<rdr_progress_callback, rdr_run,
                   rdr_iteration_count, rdr_last_message_id, rdr_fetched, rdr_progress_calls,
                   rdr_progress_writes, rdr_report, rdr_completion_calls, rdr_deleted,
                   rdr_returned>>

\* Line 345: runs.create; the run it returns carries any status.
rdr_create_run ==
    /\ rdr_pc = "create_run"
    /\ \/ rdr_pc' = "raised" /\ UNCHANGED rdr_run
       \/ \E s \in RunStatus, le \in LastErrors :
            /\ s = "failed" \/ le = "None"
            /\ rdr_run' = Some([id |-> 1, status |-> s, last_error |-> le])
            /\ rdr_pc' = IF rdr_loop_continues(s) THEN "poll" ELSE "after_loop"
    /\ UNCHANGED <<rdr_progress_callback, rdr_agent, rdr_thread,
                   rdr_iteration_count, rdr_last_message_id, rdr_fetched, rdr_progress_calls,
                   rdr_progress_writes, rdr_report, rdr_completion_calls, rdr_deleted,
                   rdr_returned>>

\* One pass of the while loop, lines 351-363: sleep, iteration_count += 1, runs.get,
\* fetch_and_print_new_agent_response, and the next test of the loop.
rdr_poll ==
    /\ rdr_pc = "poll"
    /\ rdr_iteration_count < PollCap
    /\ rdr_iteration_count' = rdr_iteration_count + 1
    /\ \/ /\ rdr_pc' = "raised"
          /\ UNCHANGED <<rdr_run, rdr_last_message_id, rdr_fetched, rdr_progress_calls,
                         rdr_progress_writes>>
       \/ \E s \in RunStatus, le \in LastErrors :
            /\ s = "failed" \/ le = "None"
            /\ rdr_run' = Some([rdr_run[1] EXCEPT !.status = s, !.last_error = le])
            /\ \/ /\ rdr_pc' = "raised"
                  /\ UNCHANGED <<rdr_last_message_id, rdr_fetched, rdr_progress_calls,
                                 rdr_progress_writes>>
               \/ \E response \in AgentResponses :
                    /\ rdr_fetched' =
                           Some([response |-> response,
                                 new_content_found |->
                                     is_new_cot_summary(response, rdr_last_message_id)])
                    /\ IF is_new_cot_summary(response, rdr_last_message_id)
                       THEN /\ rdr_progress_calls' =
                                   IF rdr_progress_callback = "none" THEN rdr_progress_calls
                                   ELSE rdr_progress_calls + 1
                            /\ rdr_progress_writes' = rdr_progress_writes + 1
                            /\ rdr_last_message_id' = Some(response[1].id)
                       ELSE UNCHANGED <<rdr_last_message_id, rdr_progress_calls,
                                        rdr_progress_writes>>
                    /\ rdr_pc' = IF rdr_loop_continues(s) THEN "poll" ELSE "after_loop"
    /\ UNCHANGED <<rdr_progress_callback, rdr_agent, rdr_thread,
                   rdr_report, rdr_completion_calls, rdr_deleted, rdr_returned>>

\* Lines 371-377: a failed run returns without a report; any other status goes on.
rdr_after_loop ==
    /\ rdr_pc = "after_loop"
    /\ IF rdr_run[1].status = "failed"
       THEN rdr_returned' = Some(<<"research_progress", "">>) /\ rdr_pc' = "returned"
       ELSE rdr_returned' = rdr_returned /\ rdr_pc' = "final_message"
    /\ UNCHANGED <<rdr_progress_callback, rdr_agent, rdr_thread, rdr_run,
                   rdr_iteration_count, rdr_last_message_id, rdr_fetched, rdr_progress_calls,
                   rdr_progress_writes, rdr_report, rdr_completion_calls, rdr_deleted>>

\* Lines 380-394: the final agent message, the report, the completion callback.
rdr_research_summary ==
    /\ rdr_pc = "final_message"
    /\ \/ rdr_pc' = "raised" /\ UNCHANGED <<rdr_report, rdr_completion_calls>>
       \/ \E final_message \in AgentResponses :
            /\ rdr_pc' = "delete_agent"
            /\ IF final_message # None
               THEN /\ rdr_report' = Some(final_message[1].id)
                    /\ rdr_completion_calls' = rdr_completion_calls + 1
               ELSE UNCHANGED <<rdr_report, rdr_completion_calls>>
    /\ UNCHANGED <<rdr_progress_callback, rdr_agent, rdr_thread, rdr_run,
                   rdr_iteration_count, rdr_last_message_id, rdr_fetched, rdr_progress_calls,
                   rdr_progress_writes, rdr_deleted, rdr_returned>>

\* Lines 396-401: delete_agent and the return of both file names.
rdr_delete_agent ==
    /\ rdr_pc = "delete_agent"
    /\ rdr_deleted' = rdr_deleted \cup {rdr_agent[1].id}
    /\ \/ rdr_pc' = "raised" /\ UNCHANGED rdr_returned
       \/ /\ rdr_pc' = "returned"
          /\ rdr_returned' = Some(<<"research_progress", "research_report">>)
    /\ UNCHANGED <<rdr_progress_callback, rdr_agent, rdr_thread, rdr_run,
                   rdr_iteration_count, rdr_last_message_id, rdr_fetched, rdr_progress_calls,
                   rdr_progress_writes, rdr_report, rdr_completion_calls>>

\* ------------------------------------------------------ sanitization

RECURSIVE SpanWord(_)
SpanWord(s) == IF s # <<>> /\ IsWord(Head(s)) THEN 1 + SpanWord(Tail(s)) ELSE 0

\* html.escape(c, quote=True) of one character
EscapeChar(c) ==
    CASE c = "&" -> <<"&", "a", "m", "p", ";">>
      [] c = "<" -> <<"&", "l", "t", ";">>
      [] c = ">" -> <<"&", "g", "t", ";">>
      [] c = "\"" -> <<"&", "q", "u", "o", "t", ";">>
      [] c = "'" -> <<"&", "#", "x", "2", "7", ";">>
      [] OTHER -> <<c>>

RECURSIVE html_escape(_)
html_escape(s) == IF s = <<>> THEN <<>> ELSE EscapeChar(Head(s)) \o html_escape(Tail(s))

\* re.sub(r'javascript:', '', sanitized, flags=re.IGNORECASE); the eleven
\* characters are one token of the text.
IsJavascriptScheme(c) == Lower(c) = "javascript:"
remove_javascript(s) == SelectSeq(s, LAMBDA c : ~IsJavascriptScheme(c))

\* Length of the match of on\w+\s*= at the head of s, ignoring case; 0 if none.
EventHandlerMatch(s) ==
    IF Len(s) >= 4 /\ Lower(s[1]) = "o" /\ Lower(s[2]) = "n"
    THEN LET w == SpanWord(Drop(s, 2))
             sp == SpanSpaces(Drop(s, 2 + w))
         IN IF w >= 1 /\ Len(s) >= 3 + w + sp /\ s[3 + w + sp] = "="
            THEN 3 + w + sp ELSE 0
    ELSE 0

\* re.sub(r'on\w+\s*=', '', sanitized, flags=re.IGNORECASE)
RECURSIVE remove_event_handlers(_)
remove_event_handlers(s) ==
    IF s = <<>> THEN <<>>
    ELSE LET n == EventHandlerMatch(s)
         IN IF n > 0 THEN remove_event_handlers(Drop(s, n))
            ELSE <<Head(s)>> \o remove_event_handlers(Tail(s))

\* sanitize_html_output for a str: html.escape, then the three re.sub. The
\* first (script elements) finds nothing, the escaped text holding no "<".
sanitize_html_output(content) ==
    remove_event_handlers(remove_javascript(html_escape(content)))

\* len() of a text: "a..a" counts for MaxValueLength characters.
RECURSIVE TextLen(_)
TextLen(s) ==
    IF s = <<>> THEN 0
    ELSE (IF Head(s) = "a..a" THEN MaxValueLength ELSE 1) + TextLen(Tail(s))

\* s[:n], for an s in which no run "a..a" straddles position n.
RECURSIVE Take(_, _)
Take(s, n) ==
    IF s = <<>> \/ TextLen(<<Head(s)>>) > n THEN <<>>
    ELSE <<Head(s)>> \o Take(Tail(s), n - TextLen(<<Head(s)>>))

\* JSON values. A dict is the sequence of its items in insertion order.
JStr(text) == [kind |-> "str", text |-> text]
JInt(n) == [kind |-> "int", n |-> n]
JList(items) == [kind |-> "list", items |-> items]
JDict(pairs) == [kind |-> "dict", pairs |-> pairs]
Item(key, value) == [key |-> key, value |-> value]
\* A key of a dict: a str, or an int given by its digits.
StrKey(text) == [int |-> FALSE, text |-> text]
IntKey(digits) == [int |-> TRUE, text |-> digits]

\* re.sub(r'[^a-zA-Z0-9_]', '_', str(key))
clean_key(key) ==
    StrKey([i \in 1..Len(key.text) |-> IF IsWord(key.text[i]) THEN key.text[i] ELSE "_"])

\* d[key] = value on the items of a dict
RECURSIVE DictSet(_, _, _)
DictSet(pairs, key, value) ==
    IF pairs = <<>> THEN <<Item(key, value)>>
    ELSE IF Head(pairs).key = key THEN <<Item(key, value)>> \o Tail(pairs)
    ELSE <<Head(pairs)>> \o DictSet(Tail(pairs), key, value)

\* sanitize_html_output(str(v)) if isinstance(v, str) else v
sanitize_if_str(v) == IF v.kind = "str" THEN JStr(sanitize_html_output(v.text)) ELSE v

RECURSIVE SanitizedItems(_, _)
SanitizedItems(pairs, acc) ==
    IF pairs = <<>> THEN acc
    ELSE SanitizedItems(Tail(pairs),
             DictSet(acc, clean_key(Head(pairs).key), sanitize_if_str(Head(pairs).value)))

\* _sanitize_nested_structure: the members of the dict or list, one level deep.
sanitize_nested_structure(data) ==
    IF data.kind = "dict" THEN JDict(SanitizedItems(data.pairs, <<>>))
    ELSE IF data.kind = "list"
    THEN JList([i \in 1..Len(data.items) |-> sanitize_if_str(data.items[i])])
    ELSE data

\* The value sanitize_log_entry stores for one value of the entry.
clean_value(value) ==
    IF value.kind = "str"
    THEN LET c == sanitize_html_output(value.text)
         IN JStr(IF TextLen(c) > MaxValueLength
                 THEN Take(c, MaxValueLength) \o <<"... [TRUNCATED]">> ELSE c)
    ELSE IF value.kind \in {"dict", "list"} THEN sanitize_nested_structure(value)
    ELSE value

RECURSIVE sanitize_log_entry_items(_, _)
sanitize_log_entry_items(pairs, sanitized) ==
    IF pairs = <<>> THEN sanitized
    ELSE sanitize_log_entry_items(Tail(pairs),
             DictSet(sanitized, clean_key(Head(pairs).key), clean_value(Head(pairs).value)))

\* sanitize_log_entry
sanitize_log_entry(entry) == JDict(sanitize_log_entry_items(entry.pairs, <<>>))

\* ------------------------------------------------------------ paths

\* A path is its text: the separator "/", the dot ".", and words that hold
\* neither. Paths are those of a POSIX build without symbolic links.
ValidationError(msg) == [type |-> "ValidationError", msg |-> msg]
FileSystemError(msg) == [type |-> "FileSystemError", msg |-> msg]

\* The text of s from its first "/" excluded, and up to it.
RECURSIVE UpToSeparator(_)
UpToSeparator(s) ==
    IF s = <<>> \/ Head(s) = "/" THEN <<>> ELSE <<Head(s)>> \o UpToSeparator(Tail(s))

\* PurePosixPath(path).parts without the root: the components that are
\* neither empty nor ".".
RECURSIVE Parts(_)
Parts(path) ==
    IF path = <<>> THEN <<>>
    ELSE LET first == UpToSeparator(path)
             rest == Parts(Drop(path, Len(first) + 1))
         IN IF first = <<>> \/ first = <<".">> THEN rest ELSE <<first>> \o rest

\* Path.is_absolute()
IsAbsolute(path) == path # <<>> /\ Head(path) = "/"

\* Path.suffix of the last component: from its last dot, unless that dot
\* starts or ends the name.
Suffix(parts) ==
    IF parts = <<>> THEN <<>>
    ELSE LET name == parts[Len(parts)]
             dots == {i \in 1..Len(name) : name[i] = "."}
         IN IF dots = {} THEN <<>>
            ELSE LET i == CHOOSE d \in dots : \A e \in dots : e <= d
                 IN IF 1 < i /\ i < Len(name) THEN SubSeq(name, i, Len(name)) ELSE <<>>

\* SecureFileHandler.__init__: base_directory resolved, allowed_extensions.
BaseDirectory == <<<<"srv">>, <<"data">>>>
allowed_extensions == {<<".", "json">>, <<".", "txt">>, <<".", "md">>}

\* sanitize_file_path: the error it raises, or None. (The forbidden system
\* prefixes apply to absolute paths, which line 98 has rejected before.)
sanitize_file_path_error(fp) ==
    IF fp = <<>>
    THEN Some(ValidationError(<<"File path must be a non-empty string">>))
    ELSE IF Contains(fp, <<".", ".">>) \/ Head(fp) = "/"
    THEN Some(ValidationError(<<"File path contains invalid directory traversal">>))
    ELSE None

\* resolved_path of _validate_file_path, as parts below the root.
resolved_path(fp) ==
    IF IsAbsolute(fp) THEN Parts(fp)
    ELSE BaseDirectory \o Parts(fp)

\* resolved_path.relative_to(self.base_directory.resolve()) succeeds
IsRelativeTo(parts, base) ==
    Len(parts) >= Len(base) /\ SubSeq(parts, 1, Len(base)) = base

\* validate_file_extension: extension = path.suffix.lower() in allowed_extensions
has_allowed_extension(parts) == LowerName(Suffix(parts)) \in allowed_extensions

\* _validate_file_path: the FileSystemError it raises, or None.
validate_file_path_error(fp) ==
    IF sanitize_file_path_error(fp) # None
    THEN Some(FileSystemError(<<"Invalid file path: ">> \o sanitize_file_path_error(fp)[1].msg))
    ELSE IF ~IsRelativeTo(resolved_path(fp), BaseDirectory)
    THEN Some(FileSystemError(<<"Invalid file path: ", "File path outside base directory: ">>))
    ELSE IF ~has_allowed_extension(resolved_path(fp))
    THEN Some(FileSystemError(<<"Invalid file path: ", "File extension '", "' not allowed">>))
    ELSE None

\* ------------------------------------------------ SecureFileHandler

\* json.load(json.dump(v)): the keys of every dict become str.
RECURSIVE json_dump(_)
json_dump(v) ==
    IF v.kind = "dict"
    THEN JDict([i \in 1..Len(v.pairs) |->
                  Item(StrKey(v.pairs[i].key.text), json_dump(v.pairs[i].value))])
    ELSE IF v.kind = "list" THEN JList([i \in 1..Len(v.items) |-> json_dump(v.items[i])])
    ELSE v

\* The data arguments of write_json.
PlainData == JDict(<<Item(StrKey(<<"n">>), JInt(1))>>)
QueryData == JDict(<<Item(StrKey(<<"q">>), JStr(<<"a", "<">>))>>)
KeyData == JDict(<<Item(StrKey(<<"a", "-", "b">>), JInt(1)), Item(IntKey(<<"1">>), JInt(2))>>)
TagsData == JDict(<<Item(StrKey(<<"t", "a", "g", "s">>), JList(<<JStr(<<"<">>)>>))>>)
CitationsData ==
    JDict(<<Item(StrKey(<<"c", "i", "t", "e", "s">>),
                 JList(<<JDict(<<Item(StrKey(<<"t", "i", "t", "l", "e">>), JStr(<<"<">>))>>)>>))>>)
MetaData ==
    JDict(<<Item(StrKey(<<"m", "e", "t", "a">>),
                 JDict(<<Item(StrKey(<<"t">>), JStr(<<"<">>)),
                         Item(StrKey(<<"i", "n">>),
                              JDict(<<Item(StrKey(<<"t">>), JStr(<<"&">>))>>))>>))>>)
LongData == JDict(<<Item(StrKey(<<"x">>), JStr(<<"a..a", "b">>))>>)
LongTagsData == JDict(<<Item(StrKey(<<"t", "a", "g", "s">>), JList(<<JStr(<<"a..a", "b">>)>>))>>)
HandlerData ==
    JDict(<<Item(StrKey(<<"u">>), JStr(<<"o", "n", "javascript:", "x", "=", "a">>))>>)
NotAnObject == JList(<<>>)

DataPool == {PlainData, QueryData, KeyData, TagsData, CitationsData, MetaData, LongData,
             LongTagsData, HandlerData, NotAnObject}

\* What the target holds before the first call, when it exists.
OldData == JDict(<<Item(StrKey(<<"n">>), JInt(0))>>)
\* The content argument of write_text.
TextContent == [kind |-> "text", text |-> <<"a">>]
NoData == JDict(<<>>)

\* A file: absent (None), or the document it holds, whole or cut short.
File(doc, whole) == Some([doc |-> doc, complete |-> whole])

PathTokens == {"/", ".", "a", "json", "exe"}
ExtraPaths ==
    { <<>>,
      <<"a", ".", ".", "json">>,
      <<"a", ".", "JSON">>,
      <<"a", "/", "a", ".", "json">>,
      <<".", ".", "/", "a", ".", "json">>,
      <<"/", "srv", "/", "data", "/", "a", ".", "json">>,
      <<"/", "etc", "/", "a", ".", "json">> }
FilePaths == UNION {[1..n -> PathTokens] : n \in 1..MaxPathLen} \cup ExtraPaths

FileOps ==
    [name : {"write_json"}, data : DataPool, sanitize : BOOLEAN, atomic : BOOLEAN]
    \cup [name : {"write_text"}, data : {TextContent}, sanitize : {FALSE}, atomic : BOOLEAN]
    \cup [name : {"read_json", "delete_file", "backup_context"}, data : {NoData},
          sanitize : {FALSE}, atomic : {FALSE}]

\* A handler made, and no call yet.
FsNew ==
    /\ files \in [target : {None, File(OldData, TRUE)}, temp : {None}, backup : {None}]
    /\ fs_pc = "ready"
    /\ fs_op = [name |-> "none", data |-> NoData, sanitize |-> FALSE, atomic |-> FALSE]
    /\ fs_data = None
    /\ fs_entry = None
    /\ fs_prev = None
    /\ fs_ops = 0
    /\ fs_value = None
    /\ fs_touched = FALSE

FsInit == platform \in {"posix", "nt"} /\ file_path \in FilePaths /\ FsNew

\* The handler is not used.
FsIdle == platform = "posix" /\ file_path = <<"a", ".", "json">> /\ FsNew /\ files.target = None

\* A public method of the handler is called.
fs_call ==
    /\ fs_pc \in {"ready", "returned", "raised"}
    /\ fs_ops < MaxFileOps
    /\ \E op \in FileOps : fs_op' = op
    /\ fs_pc' = "validate"
    /\ fs_entry' = files.target
    /\ fs_prev' = IF fs_pc = "returned" THEN Some(fs_op) ELSE None
    /\ fs_ops' = fs_ops + 1
    /\ fs_data' = None /\ fs_value' = None /\ fs_touched' = FALSE
    /\ UNCHANGED <<platform, file_path, files>>

\* validated_path = self._validate_file_path(file_path)
fs_validate_file_path ==
    /\ fs_pc = "validate"
    /\ IF validate_file_path_error(file_path) # None
       THEN fs_pc' = "raised" /\ fs_value' = validate_file_path_error(file_path)
       ELSE fs_pc' = fs_op.name /\ fs_value' = None
    /\ UNCHANGED <<platform, file_path, files, fs_op, fs_data, fs_entry, fs_prev, fs_ops, fs_touched>>

\* A faulty variant: the data is sanitized whatever the sanitize argument.
fs_write_json_always_sanitizes ==
    /\ fs_pc = "write_json"
    /\ IF fs_op.data.kind # "dict"
       THEN /\ fs_pc' = "raised"
            /\ fs_value' = Some(FileSystemError(<<"Failed to write JSON: ">>))
            /\ fs_data' = None
       ELSE /\ fs_data' = Some(json_dump(sanitize_log_entry(fs_op.data)))
            /\ fs_pc' = IF fs_op.atomic THEN "create_temp" ELSE "direct_open"
            /\ fs_value' = None
    /\ UNCHANGED <<platform, file_path, files, fs_op, fs_entry, fs_prev, fs_ops, fs_touched>>

\* write_json, lines 98-109: sanitize_log_entry if asked, validate_json_structure.
fs_write_json ==
    /\ fs_pc = "write_json"
    /\ IF fs_op.data.kind # "dict"
       THEN /\ fs_pc' = "raised"
            /\ fs_value' = Some(FileSystemError(<<"Failed to write JSON: ">>))
            /\ fs_data' = None
       ELSE /\ fs_data' = Some(json_dump(IF fs_op.sanitize THEN sanitize_log_entry(fs_op.data)
                                         ELSE fs_op.data))
            /\ fs_pc' = IF fs_op.atomic THEN "create_temp" ELSE "direct_open"
            /\ fs_value' = None
    /\ UNCHANGED <<platform, file_path, files, fs_op, fs_entry, fs_prev, fs_ops, fs_touched>>

\* write_text, lines 159-166: the parent directory is made.
fs_write_text ==
    /\ fs_pc = "write_text"
    /\ fs_data' = Some(fs_op.data)
    /\ fs_pc' = IF fs_op.atomic THEN "create_temp" ELSE "direct_open"
    /\ fs_touched' = TRUE
    /\ UNCHANGED <<platform, file_path, files, fs_op, fs_entry, fs_prev, fs_ops, fs_value>>

WriteError ==
    Some(FileSystemError(IF fs_op.name = "write_json" THEN <<"Failed to write JSON: ">>
                         ELSE <<"Failed to write text: ">>))

\* tempfile.NamedTemporaryFile(dir=file_path.parent, delete=False): the file
\* is made empty, or the call raises (the directory may be missing).
fs_create_temp ==
    /\ fs_pc = "create_temp"
    /\ \/ /\ files' = [files EXCEPT !.temp = File(fs_data[1], FALSE)]
          /\ fs_pc' = "dump" /\ fs_value' = None
       \/ /\ fs_pc' = "raised" /\ fs_value' = WriteError /\ files' = files
    /\ fs_touched' = TRUE
    /\ UNCHANGED <<platform, file_path, fs_op, fs_data, fs_entry, fs_prev, fs_ops>>

\* json.dump(data, temp_file) or tf.write(content), and the file is closed; or
\* the write raises. _atomic_write_json then unlinks the temporary file;
\* _atomic_write_text has not bound temp_file yet and leaves it.
fs_dump ==
    /\ fs_pc = "dump"
    /\ \/ /\ files' = [files EXCEPT !.temp = File(fs_data[1], TRUE)]
          /\ fs_pc' = "move" /\ fs_value' = None
       \/ /\ files' = IF fs_op.name = "write_json" THEN [files EXCEPT !.temp = None]
                      ELSE files
          /\ fs_pc' = "raised" /\ fs_value' = WriteError
    /\ UNCHANGED <<platform, file_path, fs_op, fs_data, fs_entry, fs_prev, fs_ops, fs_touched>>

\* shutil.move(temp, file_path): os.rename replaces the target in one step;
\* on nt it raises when the target exists and shutil.move falls back to
\* copy2, which opens the target for writing.
fs_move ==
    /\ fs_pc = "move"
    /\ IF platform = "posix" \/ files.target = None
       THEN /\ files' = [files EXCEPT !.target = files.temp, !.temp = None]
            /\ fs_pc' = "returned"
       ELSE /\ files' = [files EXCEPT !.target = File(fs_data[1], FALSE)]
            /\ fs_pc' = "copy"
    /\ UNCHANGED <<platform, file_path, fs_op, fs_data, fs_entry, fs_prev, fs_ops, fs_value, fs_touched>>

\* The copy of shutil.move ends and the source is unlinked, or the copy raises
\* and the except branch unlinks the temporary file.
fs_copy ==
    /\ fs_pc = "copy"
    /\ \/ /\ files' = [files EXCEPT !.target = File(fs_data[1], TRUE), !.temp = None]
          /\ fs_pc' = "returned" /\ fs_value' = None
       \/ /\ files' = [files EXCEPT !.temp = None]
          /\ fs_pc' = "raised" /\ fs_value' = WriteError
    /\ UNCHANGED <<platform, file_path, fs_op, fs_data, fs_entry, fs_prev, fs_ops, fs_touched>>

\* _direct_write_json, _direct_write_text: open(file_path, 'w') truncates the target.
fs_direct_open ==
    /\ fs_pc = "direct_open"
    /\ \/ /\ files' = [files EXCEPT !.target = File(fs_data[1], FALSE)]
          /\ fs_pc' = "direct_dump" /\ fs_value' = None
       \/ /\ fs_pc' = "raised" /\ fs_value' = WriteError /\ files' = files
    /\ fs_touched' = TRUE
    /\ UNCHANGED <<platform, file_path, fs_op, fs_data, fs_entry, fs_prev, fs_ops>>

fs_direct_dump ==
    /\ fs_pc = "direct_dump"
    /\ \/ /\ files' = [files EXCEPT !.target = File(fs_data[1], TRUE)]
          /\ fs_pc' = "returned" /\ fs_value' = None
       \/ /\ fs_pc' = "raised" /\ fs_value' = WriteError /\ files' = files
    /\ UNCHANGED <<platform, file_path, fs_op, fs_data, fs_entry, fs_prev, fs_ops, fs_touched>>

ReadError(msg) == Some(FileSystemError(<<"Failed to read JSON: ">> \o msg))

\* read_json, lines 217-231. A file cut short, or one that holds plain text,
\* is not JSON; a document that is not an object fails validate_json_structure.
fs_read_json ==
    /\ fs_pc = "read_json"
    /\ IF files.target = None
       THEN fs_pc' = "raised" /\ fs_value' = ReadError(<<"File not found: ">>)
       ELSE IF ~files.target[1].complete \/ files.target[1].doc.kind = "text"
       THEN fs_pc' = "raised" /\ fs_value' = Some(FileSystemError(<<"Invalid JSON: ">>))
       ELSE IF files.target[1].doc.kind # "dict"
       THEN fs_pc' = "raised" /\ fs_value' = ReadError(<<"Data must be a JSON object (dictionary)">>)
       ELSE fs_pc' = "returned" /\ fs_value' = Some(files.target[1].doc)
    /\ fs_touched' = TRUE
    /\ UNCHANGED <<platform, file_path, files, fs_op, fs_data, fs_entry, fs_prev, fs_ops>>

Bool(b) == [kind |-> "bool", value |-> b]

\* delete_file, lines 272-281
fs_delete_file ==
    /\ fs_pc = "delete_file"
    /\ IF files.target = None
       THEN fs_value' = Some(Bool(FALSE)) /\ files' = files
       ELSE fs_value' = Some(Bool(TRUE)) /\ files' = [files EXCEPT !.target = None]
    /\ fs_pc' = "returned"
    /\ fs_touched' = TRUE
    /\ UNCHANGED <<platform, file_path, fs_op, fs_data, fs_entry, fs_prev, fs_ops>>

\* What the guarded block of backup_context writes, and what it raises.
BlockData == JDict(<<Item(StrKey(<<"n">>), JInt(2))>>)
BlockError == [type |-> "RuntimeError", msg |-> <<"block failed">>]

\* backup_context, lines 319-321: backup_path is set and shutil.copy2 opens
\* the backup when the file exists.
fs_backup_context ==
    /\ fs_pc = "backup_context"
    /\ IF files.target # None
       THEN /\ files' = [files EXCEPT !.backup = File(files.target[1].doc, FALSE)]
            /\ fs_pc' = "backup_copy"
       ELSE files' = files /\ fs_pc' = "block"
    /\ fs_touched' = TRUE
    /\ UNCHANGED <<platform, file_path, fs_op, fs_data, fs_entry, fs_prev, fs_ops, fs_value>>

\* shutil.copy2 ends, or raises with the backup cut short.
fs_backup_copy ==
    /\ fs_pc = "backup_copy"
    /\ \/ /\ files' = [files EXCEPT !.backup = files.target]
          /\ fs_pc' = "block" /\ fs_value' = None
       \/ /\ files' = files
          /\ fs_pc' = "backup_except"
          /\ fs_value' = Some([type |-> "OSError", msg |-> <<"copy failed">>])
    /\ UNCHANGED <<platform, file_path, fs_op, fs_data, fs_entry, fs_prev, fs_ops, fs_touched>>

\* The guarded block: it opens the file for writing in place, or raises.
fs_block ==
    /\ fs_pc = "block"
    /\ \/ /\ files' = [files EXCEPT !.target = File(BlockData, FALSE)]
          /\ fs_pc' = "block_writing" /\ fs_value' = None
       \/ /\ files' = files /\ fs_pc' = "backup_except" /\ fs_value' = Some(BlockError)
    /\ UNCHANGED <<platform, file_path, fs_op, fs_data, fs_entry, fs_prev, fs_ops, fs_touched>>

\* The guarded block ends its write, or raises in the middle of it.
fs_block_writing ==
    /\ fs_pc = "block_writing"
    /\ \/ /\ files' = [files EXCEPT !.target = File(BlockData, TRUE)]
          /\ fs_pc' = "backup_exit" /\ fs_value' = None
       \/ /\ files' = files /\ fs_pc' = "backup_except" /\ fs_value' = Some(BlockError)
    /\ UNCHANGED <<platform, file_path, fs_op, fs_data, fs_entry, fs_prev, fs_ops, fs_touched>>

\* Lines 327-329: the backup is removed on success.
fs_backup_exit ==
    /\ fs_pc = "backup_exit"
    /\ files' = [files EXCEPT !.backup = None]
    /\ fs_pc' = "returned"
    /\ UNCHANGED <<platform, file_path, fs_op, fs_data, fs_entry, fs_prev, fs_ops, fs_value, fs_touched>>

\* Lines 331-339: if backup_path was set and the backup exists it is moved
\* back (a failure of the move is logged and dropped); the exception is
\* raised again. The moved file is followed to the end of the move.
fs_backup_except ==
    /\ fs_pc = "backup_except"
    /\ \/ /\ fs_entry # None /\ files.backup # None
          /\ files' = [files EXCEPT !.target = files.backup, !.backup = None]
       \/ /\ fs_entry # None /\ files.backup # None
          /\ files' = files
       \/ /\ ~(fs_entry # None /\ files.backup # None)
          /\ files' = files
    /\ fs_pc' = "raised"
    /\ UNCHANGED <<platform, file_path, fs_op, fs_data, fs_entry, fs_prev, fs_ops, fs_value, fs_touched>>

\* The process is killed in the middle of a call.
fs_crash ==
    /\ fs_pc \notin {"ready", "returned", "raised", "crashed"}
    /\ fs_pc' = "crashed"
    /\ UNCHANGED <<platform, file_path, files, fs_op, fs_data, fs_entry, fs_prev, fs_ops, fs_value,
                   fs_touched>>

\* ------------------------------------------- ThrottledProgressCallback

\* __init__ defaults: min_interval_seconds = 0.5 (two quarters of a second),
\* min_progress_delta = 0.01 (one hundredth).
min_interval_seconds == 2
min_progress_delta == 1

\* Progress arguments, in hundredths: -0.5, 0.0, 0.3, 0.31, 1.0, 1.5. For every
\* pair of these the double comparison abs(a - b) >= 0.01 gives what the exact
\* one gives (0.31 - 0.3 is 0.010000000000000009 as a double).
ProgressValues == {-50, 0, 30, 31, 100, 150}

ProducerThreads == {1, 2}

Abs(x) == IF x < 0 THEN -x ELSE x

\* A faulty variant: a call with progress 0.0 is throttled like any other.
should_call_without_start(time_elapsed, progress_change, progress) ==
    \/ time_elapsed >= min_interval_seconds
    \/ progress_change >= min_progress_delta
    \/ progress >= 100

\* A faulty variant: the change must exceed the minimum delta.
should_call_strict_delta(time_elapsed, progress_change, progress) ==
    \/ time_elapsed >= min_interval_seconds
    \/ progress_change > min_progress_delta
    \/ progress >= 100
    \/ progress = 0

\* should_call, lines 188-193.
should_call(time_elapsed, progress_change, progress) ==
    \/ time_elapsed >= min_interval_seconds
    \/ progress_change >= min_progress_delta
    \/ progress >= 100
    \/ progress = 0

IdleProducer == [pc |-> "idle", progress |-> 0, current_time |-> 0]

\* ThrottledProgressCallback.__init__
TpcNew ==
    /\ last_call_time = 0
    /\ last_progress = 0
    /\ producers = [t \in ProducerThreads |-> IdleProducer]
    /\ calls = <<>>
    /\ decision = None

\* No producer reports before the clock reads ClockStart.
TpcInit == clock = ClockStart /\ TpcNew

\* The clock advances by a quarter of a second.
clock_tick ==
    /\ clock < ClockStart + ClockTicks
    /\ clock' = clock + 1
    /\ UNCHANGED <<last_call_time, last_progress, producers, calls, decision>>

InFlight == Cardinality({t \in ProducerThreads : producers[t].pc # "idle"})

\* Line 180: a producer enters __call__ and reads the clock, before the lock.
tpc_read_clock(t) ==
    /\ producers[t].pc = "idle"
    /\ Len(calls) + InFlight < MaxCalls
    /\ \E p \in ProgressValues :
         producers' = [producers EXCEPT ![t] =
                          [pc |-> "at_lock", progress |-> p, current_time |-> clock]]
    /\ UNCHANGED <<clock, last_call_time, last_progress, calls, decision>>

\* A faulty variant: the time and the progress are recorded before the call of
\* base_callback.
tpc_locked_records_first(t) ==
    /\ producers[t].pc = "at_lock"
    /\ LET current_time == producers[t].current_time
           progress == producers[t].progress
           time_elapsed == current_time - last_call_time
           progress_change == Abs(progress - last_progress)
           forward == should_call(time_elapsed, progress_change, progress)
       IN \E returned \in (IF forward THEN BOOLEAN ELSE {FALSE}) :
            /\ last_call_time' = IF forward THEN current_time ELSE last_call_time
            /\ last_progress' = IF forward THEN progress ELSE last_progress
            /\ calls' = Append(calls, [progress |-> progress, current_time |-> current_time,
                                       forwarded |-> forward])
            /\ decision' = Some([progress |-> progress, current_time |-> current_time,
                                 time_elapsed |-> time_elapsed,
                                 prev_call_time |-> last_call_time,
                                 prev_progress |-> last_progress,
                                 forwarded |-> forward, returned |-> returned])
    /\ producers' = [producers EXCEPT ![t] = IdleProducer]
    /\ UNCHANGED clock

\* Lines 182-201: the block under self._lock, with the call of base_callback,
\* which returns or raises.
tpc_locked(t) ==
    /\ producers[t].pc = "at_lock"
    /\ LET current_time == producers[t].current_time
           progress == producers[t].progress
           time_elapsed == current_time - last_call_time
           progress_change == Abs(progress - last_progress)
           forward == should_call(time_elapsed, progress_change, progress)
       IN \E returned \in (IF forward THEN BOOLEAN ELSE {FALSE}) :
            /\ last_call_time' = IF returned THEN current_time ELSE last_call_time
            /\ last_progress' = IF returned THEN progress ELSE last_progress
            /\ calls' = Append(calls, [progress |-> progress, current_time |-> current_time,
                                       forwarded |-> forward])
            /\ decision' = Some([progress |-> progress, current_time |-> current_time,
                                 time_elapsed |-> time_elapsed,
                                 prev_call_time |-> last_call_time,
                                 prev_progress |-> last_progress,
                                 forwarded |-> forward, returned |-> returned])
    /\ producers' = [producers EXCEPT ![t] = IdleProducer]
    /\ UNCHANGED clock

\* ------------------------------------------------------ the research logs

\* save_research_log and load_research_logs of one ResearchService over the
\* log directory of its SecureFileHandler, on a POSIX build; the calls of one
\* thread, each taken as a whole.
JBool(b) == [kind |-> "bool", b |-> b]
JNull == [kind |-> "null"]

KContent == StrKey(<<"c", "o", "n", "t", "e", "n", "t">>)
KCitations == StrKey(<<"c", "i", "t", "a", "t", "i", "o", "n", "s">>)
KMetadata == StrKey(<<"m", "e", "t", "a", "d", "a", "t", "a">>)
KSuccess == StrKey(<<"s", "u", "c", "c", "e", "s", "s">>)
KErrorMessage == StrKey(<<"e", "r", "r", "o", "r", "_", "m", "e", "s", "s", "a", "g", "e">>)
KTimestamp == StrKey(<<"t", "i", "m", "e", "s", "t", "a", "m", "p">>)
KQuery == StrKey(<<"q", "u", "e", "r", "y">>)
KTitle == StrKey(<<"t", "i", "t", "l", "e">>)

\* The ResearchResult objects a caller holds.
PlainResult ==
    [content |-> <<"a">>, citations |-> JList(<<>>),
     metadata |-> JDict(<<Item(KQuery, JStr(<<"a">>))>>),
     success |-> TRUE, error_message |-> None]
MarkupResult ==
    [content |-> <<"a", "<">>,
     citations |-> JList(<<JStr(<<"<">>), JDict(<<Item(KTitle, JStr(<<"&">>))>>)>>),
     metadata |-> JDict(<<Item(KQuery, JStr(<<"a", "<">>))>>),
     success |-> TRUE, error_message |-> None]
FailedResult ==
    [content |-> <<>>, citations |-> JList(<<>>),
     metadata |-> JDict(<<Item(KQuery, JStr(<<"a">>))>>),
     success |-> FALSE, error_message |-> Some(<<"e">>)]
ResearchResults == {PlainResult, MarkupResult, FailedResult}

\* The decimal digits, and a two-digit field of strftime and of isoformat.
Digits == <<"0", "1", "2", "3", "4", "5", "6", "7", "8", "9">>
DigitValue(c) == (CHOOSE i \in 1..10 : Digits[i] = c) - 1
TwoDigits(n) == <<Digits[(n \div 10) + 1], Digits[(n % 10) + 1]>>

\* ResearchResult.to_dict: a new dict that holds the list and the map of res.
to_dict(res, now) ==
    JDict(<<Item(KContent, JStr(res.content)),
            Item(KCitations, res.citations),
            Item(KMetadata, res.metadata),
            Item(KSuccess, JBool(res.success)),
            Item(KErrorMessage,
                 IF res.error_message = None THEN JNull ELSE JStr(res.error_message[1])),
            Item(KTimestamp, JStr(TwoDigits(now)))>>)

\* d[k] for a key the dict holds
DictGet(d, k) == d.pairs[CHOOSE i \in 1..Len(d.pairs) : d.pairs[i].key = k].value

\* The entry given to sanitize_log_entry, once it has returned: the loop
\* stores into the new dict `sanitized` (lines 185 and 203) and
\* _sanitize_nested_structure builds new containers (lines 211-220).
entry_sanitized_in_place(entry) == sanitize_log_entry(entry)

entry_after_sanitize(entry) == entry

\* The ResearchResult whose list and map the entry holds, as the entry shows them.
held_in(res, entry) ==
    [res EXCEPT !.citations = DictGet(entry, KCitations),
                !.metadata = DictGet(entry, KMetadata)]

\* timestamp = datetime.now().strftime("%Y%m%d_%H%M%S");
\* log_filename = f"research_log_{timestamp}.json"
default_log_filename(now) == <<"research_log_">> \o TwoDigits(now) \o <<".", "json">>

\* What a caller passes as log_filename or as file_path.
GivenFilenames == {<<"a", ".", "json">>, <<".", ".", "/", "a", ".", "json">>}

\* str(self.base_directory / name)
BaseText == <<"/", "srv", "/", "data", "/">>
absolute_path(name) == BaseText \o name

\* write_json(fp, data, sanitize, atomic=True), lines 95-113, on a disk that
\* takes the write or fails it: the document stored, or the error raised.
write_json_outcome(fp, data, sanitize, disk_ok) ==
    LET e == validate_file_path_error(fp)
        checked == IF sanitize THEN sanitize_log_entry(data) ELSE data
        failed(msg) == [ok |-> FALSE, doc |-> None,
                        error |-> Some(FileSystemError(<<"Failed to write JSON: ">> \o msg))]
    IN IF e # None THEN failed(e[1].msg)
       ELSE IF checked.kind # "dict"
       THEN failed(<<"Data must be a JSON object (dictionary)">>)
       ELSE IF ~disk_ok THEN failed(<<"OSError">>)
       ELSE [ok |-> TRUE, doc |-> Some(json_dump(checked)), error |-> None]

\* The directory once the document is moved to its name.
stored(dir, name, doc, now) ==
    [n \in DOMAIN dir \cup {name} |->
        IF n = name THEN [doc |-> doc, mtime |-> now] ELSE dir[n]]

\* The caller's ResearchResult after a call of write_json on the entry made of it.
held_after_write(fp, entry, sanitize) ==
    IF validate_file_path_error(fp) = None /\ sanitize
    THEN held_in(log_held, entry_after_sanitize(entry))
    ELSE held_in(log_held, entry)

\* save_research_log(result, log_filename), lines 343-360.
save_research_log ==
    \E given \in {None} \cup {Some(n) : n \in GivenFilenames}, disk_ok \in BOOLEAN :
      LET log_filename == IF given = None THEN default_log_filename(log_clock) ELSE given[1]
          log_data == to_dict(log_held, log_clock)
          w == write_json_outcome(log_filename, log_data, TRUE, disk_ok)
      IN /\ log_dir' = IF w.ok THEN stored(log_dir, log_filename, w.doc[1], log_clock)
                       ELSE log_dir
         /\ log_held' = held_after_write(log_filename, log_data, TRUE)
         /\ log_call' =
              Some([op |-> "save_research_log", given |-> log_held, ok |-> w.ok,
                    value |-> IF w.ok THEN absolute_path(log_filename)
                              ELSE FileSystemError(<<"Failed to save research log: ">>
                                                   \o w.error[1].msg)])
         /\ UNCHANGED log_clock

\* A caller's own write_json(file_path, data, sanitize) on the dict of its result.
write_json ==
    \E fp \in GivenFilenames, sanitize \in BOOLEAN, disk_ok \in BOOLEAN :
      LET data == to_dict(log_held, log_clock)
          w == write_json_outcome(fp, data, sanitize, disk_ok)
      IN /\ log_dir' = IF w.ok THEN stored(log_dir, fp, w.doc[1], log_clock) ELSE log_dir
         /\ log_held' = held_after_write(fp, data, sanitize)
         /\ log_call' =
              Some([op |-> "write_json", given |-> log_held, ok |-> w.ok,
                    value |-> IF w.ok THEN absolute_path(fp) ELSE w.error[1]])
         /\ UNCHANGED log_clock

\* self.base_directory.glob("research_log_*.json") on one name
matches_log_pattern(name) ==
    /\ Len(name) >= 3
    /\ Head(name) = "research_log_"
    /\ SubSeq(name, Len(name) - 1, Len(name)) = <<".", "json">>

\* list_files(pattern), lines 243-261: the paths, which glob yields in no
\* particular order.
list_files(dir) ==
    {absolute_path(n) : n \in {m \in DOMAIN dir : matches_log_pattern(m)
                                                    /\ has_allowed_extension(Parts(m))}}

\* p < q as str compares two paths that differ in digits only
RECURSIVE PathLess(_, _)
PathLess(p, q) ==
    IF p = <<>> \/ q = <<>> THEN p = <<>> /\ q # <<>>
    ELSE IF Head(p) = Head(q) THEN PathLess(Tail(p), Tail(q))
    ELSE DigitValue(Head(p)) < DigitValue(Head(q))

\* sorted(log_files, reverse=True)
RECURSIVE sorted_reverse(_)
sorted_reverse(paths) ==
    IF paths = {} THEN <<>>
    ELSE LET last == CHOOSE p \in paths : \A q \in paths \ {p} : PathLess(q, p)
         IN <<last>> \o sorted_reverse(paths \ {last})

\* read_json(fp), lines 215-231: the document, or the error raised.
read_json_outcome(fp, dir) ==
    LET e == validate_file_path_error(fp)
        name == IF IsAbsolute(fp) THEN Drop(fp, Len(BaseText)) ELSE fp
        failed(msg) == [ok |-> FALSE, doc |-> None,
                        error |-> Some(FileSystemError(<<"Failed to read JSON: ">> \o msg))]
    IN IF e # None THEN failed(e[1].msg)
       ELSE IF name \notin DOMAIN dir THEN failed(<<"File not found: ">>)
       ELSE IF dir[name].doc.kind # "dict"
       THEN failed(<<"Data must be a JSON object (dictionary)">>)
       ELSE [ok |-> TRUE, doc |-> Some(dir[name].doc), error |-> None]

\* The loop of load_research_logs, lines 368-374: a file that fails to load
\* is logged and left out.
RECURSIVE loaded_logs(_, _)
loaded_logs(log_files, dir) ==
    IF log_files = <<>> THEN <<>>
    ELSE LET r == read_json_outcome(Head(log_files), dir)
         IN (IF r.ok THEN <<r.doc[1]>> ELSE <<>>) \o loaded_logs(Tail(log_files), dir)

\* load_research_logs(pattern="research_log_*.json"), lines 362-381.
load_research_logs ==
    /\ log_call' =
         Some([op |-> "load_research_logs", given |-> log_held, ok |-> TRUE,
               value |-> loaded_logs(sorted_reverse(list_files(log_dir)), log_dir)])
    /\ UNCHANGED <<log_clock, log_dir, log_held>>

\* A second passes.
log_tick ==
    /\ log_clock < MaxLogClock
    /\ log_clock' = log_clock + 1
    /\ UNCHANGED <<log_dir, log_held, log_call>>

\* A file of another kind that the directory may hold from the start.
ForeignFile == [n \in {<<"a", ".", "json">>} |-> [doc |-> OldData, mtime |-> 0]]

LogInit ==
    /\ log_clock = 1
    /\ log_dir \in {<<>>, ForeignFile}
    /\ log_held \in ResearchResults
    /\ log_call = None

\* No log is saved or loaded.
LogIdle == log_clock = 1 /\ log_dir = <<>> /\ log_held = PlainResult /\ log_call = None

\* ------------------------------------------------- the caller of an attempt

\* The caller has its request and waits for the attempt to end.
AppStart == app_pc = "waiting" /\ app_saves = 0

\* No caller waits.
AppIdle == app_pc = "handled" /\ app_saves = 0

\* CLIApp._execute_research, lines 211-226 of cli/main.py, once
\* conduct_research_sync has ended: the result is saved when result.success,
\* and only then; an exception leaves through the except branch.
cli_execute_research ==
    /\ app_pc = "waiting"
    /\ future = "none" /\ pc \in {"returned", "raised"}
    /\ app_saves' = IF pc = "returned" /\ result[1].success THEN app_saves + 1
                    ELSE app_saves
    /\ app_pc' = "handled"

\* StreamlitApp._check_research_completion, lines 341-356 of web/app.py, run
\* by the timer once the future is done: future.result() raises for a task
\* that was cancelled or that raised; a result is saved, successful or not.
check_research_completion ==
    /\ app_pc = "waiting"
    /\ future \in {"finished", "cancelled"}
    /\ app_saves' = IF pc = "returned" THEN app_saves + 1 ELSE app_saves
    /\ app_pc' = "handled"

\* ------------------------------------------------------ ResearchRequest

ValueError(msg) == [type |-> "ValueError", msg |-> msg]

\* re.sub(r'[<>\"\'&]', '', query)
HarmfulChars == {"<", ">", "\"", "'", "&"}
remove_harmful(query) == SelectSeq(query, LAMBDA c : c \notin HarmfulChars)

\* validate_research_query(query, max_length): the error raised, or the
\* sanitized query returned.
validate_research_query(query, max_length) ==
    LET stripped == Strip(query)
        sanitized_query == remove_harmful(stripped)
        raised(msg) == [ok |-> FALSE, value |-> ValidationError(msg)]
    IN IF query = <<>> THEN raised(<<"Research query must be a non-empty string">>)
       ELSE IF TextLen(stripped) = 0
       THEN raised(<<"Research query cannot be empty or whitespace only">>)
       ELSE IF TextLen(stripped) > max_length
       THEN raised(<<"Research query cannot exceed ", "max_length", " characters">>)
       ELSE IF TextLen(Strip(sanitized_query)) < MinQueryLength
       THEN raised(<<"Research query too short after sanitization">>)
       ELSE [ok |-> TRUE, value |-> sanitized_query]

\* A faulty variant: timeout_seconds is not looked at.
post_init_ignoring_timeout(a) ==
    IF a.max_iterations <= 0 \/ a.max_iterations > MaxIterationsLimit
    THEN [ok |-> FALSE, value |-> ValueError(<<"max_iterations must be between 1 and 50">>)]
    ELSE validate_research_query(a.query, MaxQueryLength)

\* ResearchRequest.__post_init__ on the fields a: the exception raised, or the
\* query that object.__setattr__ stores.
post_init(a) ==
    IF a.max_iterations <= 0 \/ a.max_iterations > MaxIterationsLimit
    THEN [ok |-> FALSE, value |-> ValueError(<<"max_iterations must be between 1 and 50">>)]
    ELSE IF a.timeout_seconds <= 0 \/ a.timeout_seconds > MaxTimeoutSeconds
    THEN [ok |-> FALSE, value |-> ValueError(<<"timeout_seconds must be between 1 and 3600">>)]
    ELSE validate_research_query(a.query, MaxQueryLength)

\* The queries given: every text of up to MaxQueryLen characters of
\* QueryChars, and some that hold other characters or are long.
QueryChars == {" ", "<", "a"}
LongQueries ==
    { <<"a..a">>, <<"a..a", "a">>, <<" ", "a..a", " ">>, <<"<", "a..a">>,
      <<"a", "&", "a", "'", "a">>, <<"\"", "a", "a", "a", "\"">>, <<">", " ", "a", "a", "a">> }
Queries == UNION {[1..n -> QueryChars] : n \in 0..MaxQueryLen} \cup LongQueries

RqInit ==
    /\ rq_args \in [query : Queries, max_iterations : {0, 1, MaxIterationsLimit, MaxIterationsLimit + 1},
                    timeout_seconds : {0, 1, MaxTimeoutSeconds, MaxTimeoutSeconds + 1}]
    /\ rq_pc = "given"
    /\ rq_validated = None /\ rq_request = None /\ rq_error = None

\* The caller validates the query it was given (cli/main.py, line 196;
\* web/app.py, line 289) with config.security.max_input_length.
validate_query ==
    /\ rq_pc = "given"
    /\ LET v == validate_research_query(rq_args.query, max_input_length)
       IN IF v.ok
          THEN rq_pc' = "validated" /\ rq_validated' = Some(v.value) /\ rq_error' = rq_error
          ELSE rq_pc' = "rejected" /\ rq_error' = Some(v.value) /\ rq_validated' = rq_validated
    /\ UNCHANGED <<rq_args, rq_request>>

\* ResearchRequest(query, max_iterations, timeout_seconds): the dataclass
\* sets the fields and runs __post_init__; the query is the one the caller
\* validated, or the one it was given when it did not validate.
construct_request ==
    /\ rq_pc \in {"given", "validated"}
    /\ LET fields == [rq_args EXCEPT !.query = IF rq_validated = None THEN @
                                                ELSE rq_validated[1]]
           p == post_init(fields)
       IN IF p.ok
          THEN /\ rq_pc' = "constructed"
               /\ rq_request' = Some([fields EXCEPT !.query = p.value])
               /\ rq_error' = rq_error
          ELSE /\ rq_pc' = "raised"
               /\ rq_error' = Some(p.value)
               /\ rq_request' = rq_request
    /\ UNCHANGED <<rq_args, rq_validated>>

RqIdle ==
    /\ rq_args = [query |-> Query, max_iterations |-> 10, timeout_seconds |-> 300]
    /\ rq_pc = "idle"
    /\ rq_validated = None /\ rq_request = None /\ rq_error = None

\* ---------------------------------------------------- extract_citations

\* A match of one of the citation patterns is the text of its title group,
\* the text of its URL group and the context its snippet is cut from. A URL is
\* its scheme with "://", then its characters.
Match(title, url) == [title |-> title, url |-> url, context |-> <<"s">>]

\* re.sub(r'\s+', ' ', title.strip()) on a text whose blanks are single
collapse_whitespace(title) == Strip(title)

\* _clean_citation_title, for titles of 200 characters and fewer
clean_citation_title(title) ==
    IF title = <<>> THEN <<"Untitled">>
    ELSE LET cleaned == SelectSeq(collapse_whitespace(title),
                                  LAMBDA c : IsWord(c) \/ IsSpace(c)
                                             \/ c \in {"-", ".", ",", ":", ";"})
         IN IF cleaned = <<>> THEN <<"Untitled">> ELSE cleaned

\* _is_valid_url: parsed.scheme in ['http', 'https'] and parsed.netloc
is_valid_url(url) ==
    /\ url # <<>>
    /\ Head(url) \in {"http://", "https://"}
    /\ UpToSeparator(Tail(url)) # <<>>

\* _create_citation_from_match: None when it raises, or Some(citation).
create_citation_from_match(match, index) ==
    LET title == clean_citation_title(Strip(match.title))
        url == Strip(match.url)
    IN IF ~is_valid_url(url) THEN None
       ELSE Some([title |-> title, url |-> url, snippet |-> match.context, index |-> index])

\* _is_duplicate_citation
is_duplicate_citation(citation, existing_citations) ==
    \E i \in 1..Len(existing_citations) :
        \/ citation.url = existing_citations[i].url
        \/ LowerName(citation.title) = LowerName(existing_citations[i].title)

TitleGroups == {<<"n">>, <<"N">>, <<"o">>, <<" ", "n", "!">>}
UrlGroups == {<<"https://", "u">>, <<"https://", "v">>, <<"https://", "/", "u">>}
Matches == {Match(t, u) : t \in TitleGroups, u \in UrlGroups}

\* extract_citations is called on a content in which the patterns match
\* cit_candidates, in the order the two loops come to them.
CitInit ==
    /\ cit_limit \in {1, 2, max_citations}
    /\ cit_candidates \in UNION {[1..n -> Matches] : n \in 0..MaxMatches}
    /\ cit_pos = 0
    /\ cit_citations = <<>>
    /\ cit_index = 1
    /\ cit_returned = None

\* A faulty variant: the loops run on however many citations there are.
limit_never_reached == FALSE

\* if len(citations) >= self.max_citations: break (lines 90 and 103)
limit_reached == Len(cit_citations) >= cit_limit

\* One pass of the inner loop of extract_citations, lines 89-101.
extract_match ==
    /\ cit_returned = None
    /\ cit_pos < Len(cit_candidates) /\ ~limit_reached
    /\ LET citation == create_citation_from_match(cit_candidates[cit_pos + 1], cit_index)
       IN IF citation # None /\ ~is_duplicate_citation(citation[1], cit_citations)
          THEN /\ cit_citations' = Append(cit_citations, citation[1])
               /\ cit_index' = cit_index + 1
          ELSE UNCHANGED <<cit_citations, cit_index>>
    /\ cit_pos' = cit_pos + 1
    /\ UNCHANGED <<cit_limit, cit_candidates, cit_returned>>

\* The loops end, or the limit ends them: return citations (line 107).
extract_return ==
    /\ cit_returned = None
    /\ cit_pos = Len(cit_candidates) \/ limit_reached
    /\ cit_returned' = Some(cit_citations)
    /\ UNCHANGED <<cit_limit, cit_candidates, cit_pos, cit_citations, cit_index>>

CitIdle ==
    /\ cit_limit = max_citations
    /\ cit_candidates = <<>> /\ cit_pos = 0
    /\ cit_citations = <<>> /\ cit_index = 1
    /\ cit_returned = None

\* ------------------------------------------------ superscript conversion

\* convert_citations_to_superscript of src/research_core.py and
\* CitationProcessor.convert_to_superscript. A marker of the agent,
\* U+3010 digits ":" digits U+2020 "source" U+3011, is one token, written
\* "#3:5#" for the marker whose second number is 5.
Markers == {"#3:4#", "#3:5#", "#3:12#"}

\* match.group(1) of a marker
citation_number(marker) ==
    CASE marker = "#3:4#" -> <<"4">>
      [] marker = "#3:5#" -> <<"5">>
      [] marker = "#3:12#" -> <<"1", "2">>

\* re.sub(pattern, replacement, markdown_content): <sup>number</sup> for every marker
RECURSIVE markers_to_superscript(_)
markers_to_superscript(s) ==
    IF s = <<>> THEN <<>>
    ELSE (IF Head(s) \in Markers
          THEN <<"<sup>">> \o citation_number(Head(s)) \o <<"</sup>">>
          ELSE <<Head(s)>>) \o markers_to_superscript(Tail(s))

\* The length of the match of <sup>\d+</sup> at the start of s, or 0.
TagLen(s) ==
    IF s = <<>> \/ Head(s) # "<sup>" THEN 0
    ELSE LET d == SpanDigits(Tail(s))
         IN IF d > 0 /\ Len(s) >= d + 2 /\ s[d + 2] = "</sup>" THEN d + 2 ELSE 0

\* The length of the match of \s*,?\s*<sup>\d+</sup> at the start of s, or 0.
NextTagLen(s) ==
    LET before == SpanSpaces(s)
        comma == IF Len(s) > before /\ s[before + 1] = "," THEN 1 ELSE 0
        after == SpanSpaces(Drop(s, before + comma))
        tag == TagLen(Drop(s, before + comma + after))
    IN IF tag = 0 THEN 0 ELSE before + comma + after + tag

RECURSIVE MoreTagsLen(_)
MoreTagsLen(s) ==
    IF NextTagLen(s) = 0 THEN 0 ELSE NextTagLen(s) + MoreTagsLen(Drop(s, NextTagLen(s)))

\* The length of the match of consecutive_pattern at the start of s, or 0.
RunLen(s) ==
    IF TagLen(s) = 0 \/ MoreTagsLen(Drop(s, TagLen(s))) = 0 THEN 0
    ELSE TagLen(s) + MoreTagsLen(Drop(s, TagLen(s)))

\* int(num) and str(num)
RECURSIVE ToInt(_)
ToInt(d) ==
    IF d = <<>> THEN 0
    ELSE 10 * ToInt(SubSeq(d, 1, Len(d) - 1)) + DigitValue(d[Len(d)])

RECURSIVE ToDigits(_)
ToDigits(n) ==
    IF n < 10 THEN <<Digits[n + 1]>> ELSE ToDigits(n \div 10) \o <<Digits[(n % 10) + 1]>>

\* set(int(num) for num in re.findall(r"<sup>(\d+)</sup>", citation_text))
RECURSIVE citation_numbers(_)
citation_numbers(s) ==
    IF s = <<>> THEN {}
    ELSE IF TagLen(s) > 0
    THEN {ToInt(SubSeq(s, 2, TagLen(s) - 1))} \cup citation_numbers(Drop(s, TagLen(s)))
    ELSE citation_numbers(Tail(s))

\* A faulty variant: the numbers are listed in descending order.
RECURSIVE citation_list_descending(_)
citation_list_descending(numbers) ==
    IF numbers = {} THEN <<>>
    ELSE LET most == CHOOSE n \in numbers : \A m \in numbers : m <= n
         IN ToDigits(most)
            \o (IF numbers = {most} THEN <<>>
                ELSE <<",">> \o citation_list_descending(numbers \ {most}))

\* ",".join(str(num) for num in sorted(numbers))
RECURSIVE citation_list(_)
citation_list(numbers) ==
    IF numbers = {} THEN <<>>
    ELSE LET least == CHOOSE n \in numbers : \A m \in numbers : n <= m
         IN ToDigits(least)
            \o (IF numbers = {least} THEN <<>>
                ELSE <<",">> \o citation_list(numbers \ {least}))

\* consolidate_and_sort_citations on the text of one match
consolidate_and_sort_citations(citation_text) ==
    <<"<sup>">> \o citation_list(citation_numbers(citation_text)) \o <<"</sup>">>

\* re.sub(consecutive_pattern, consolidate_and_sort_citations, converted_text)
RECURSIVE consolidate(_)
consolidate(s) ==
    IF s = <<>> THEN <<>>
    ELSE IF RunLen(s) > 0
    THEN consolidate_and_sort_citations(SubSeq(s, 1, RunLen(s)))
         \o consolidate(Drop(s, RunLen(s)))
    ELSE <<Head(s)>> \o consolidate(Tail(s))

\* convert_citations_to_superscript of src/research_core.py
convert_citations_to_superscript(markdown_content) ==
    consolidate(markers_to_superscript(markdown_content))

\* The contents converted: every text of up to MaxContentLen tokens, and
\* longer ones that hold three markers in either notation.
ContentTokens == Markers \cup {",", " ", "a"}
LongContents ==
    { <<"a", " ", "#3:5#", ",", " ", "#3:4#", ",", " ", "#3:5#", ".">>,
      <<"[", "5", "]", "[", "4", "]", "[", "5", "]">>,
      <<"a", " ", "[", "5", "]", ",", " ", "[", "4", "]", ",", " ", "[", "5", "]", ".">>,
      <<"[", "4", "]", " ", "a", " ", "[", "5", "]">> }
Contents == UNION {[1..n -> ContentTokens] : n \in 0..MaxContentLen} \cup LongContents

SupInit == sup_content \in Contents /\ sup_output = None

\* fetch_and_print_new_agent_response, line 214 of src/research_core.py:
\* text_summary = convert_citations_to_superscript(text_summary)
summary_to_superscript ==
    /\ sup_output = None
    /\ sup_output' = Some([function |-> "convert_citations_to_superscript",
                           text |-> convert_citations_to_superscript(sup_content)])
    /\ UNCHANGED sup_content

\* _conduct_research_sync, line 172 of research.py:
\* result_content = self.citation_processor.convert_to_superscript(result_content)
result_to_superscript ==
    /\ sup_output = None
    /\ sup_output' = Some([function |-> "convert_to_superscript",
                           text |-> convert_to_superscript(sup_content)])
    /\ UNCHANGED sup_content

SupIdle == sup_content = <<>> /\ sup_output = None

\* ------------------------------------------------------- the executor

\* The ThreadPoolExecutor of one ResearchService and the threads that call the
\* service: ex_tasks is where the execution of each caller stands, ex_queue
\* the work items no worker has taken yet, oldest first.
Callers == 1..MaxCallers

ExIdle == ex_tasks = [c \in Callers |-> "idle"] /\ ex_queue = <<>>

\* Executions a worker of the pool is running, and those a caller's own thread runs.
OnWorkers == {c \in Callers : ex_tasks[c] = "running"}
OnCallers == {c \in Callers : ex_tasks[c] = "sync"}
Executing == OnWorkers \cup OnCallers

\* A faulty variant: the pool has a worker for every work item.
worker_free_unbounded == TRUE

\* A worker of the pool has no work item: fewer than max_workers are busy.
worker_free == Cardinality(OnWorkers) < max_workers

\* conduct_research_async: self._executor.submit(self._conduct_research_sync, ...)
executor_submit(c) ==
    /\ ex_tasks[c] = "idle"
    /\ ex_tasks' = [ex_tasks EXCEPT ![c] = "queued"]
    /\ ex_queue' = Append(ex_queue, c)

\* A free worker takes the oldest work item and calls _conduct_research_sync.
executor_worker ==
    /\ ex_queue # <<>>
    /\ worker_free
    /\ ex_tasks' = [ex_tasks EXCEPT ![Head(ex_queue)] = "running"]
    /\ ex_queue' = Tail(ex_queue)

\* conduct_research_sync: return self._conduct_research_sync(request, progress_callback),
\* on the thread of the caller.
sync_call(c) ==
    /\ ex_tasks[c] = "idle"
    /\ ex_tasks' = [ex_tasks EXCEPT ![c] = "sync"]
    /\ UNCHANGED ex_queue

\* _conduct_research_sync returns its ResearchResult.
execution_returns(c) ==
    /\ c \in Executing
    /\ ex_tasks' = [ex_tasks EXCEPT ![c] = "done"]
    /\ UNCHANGED ex_queue

\* The caller has its result and may ask again.
caller_continues(c) ==
    /\ ex_tasks[c] = "done"
    /\ ex_tasks' = [ex_tasks EXCEPT ![c] = "idle"]
    /\ UNCHANGED ex_queue

\* -------------------------------------------------- concurrent writers

\* Two threads that call write_json(file_path, data, atomic=True) of one
\* SecureFileHandler with one file_path. A file is the sequence of the blocks
\* written to it; writers[w].temp is the temporary file of writer w, wr_target
\* the file at file_path, writers[w].order the place of w among the moves
\* that have ended.
WriterThreads == {1, 2}

IdleWriter == [pc |-> "idle", temp |-> None, offset |-> 0, order |-> 0]

WrIdle == writers = [w \in WriterThreads |-> IdleWriter] /\ wr_target = None

\* json.dump(data, temp_file, ...) of each writer, in blocks
WriterData(w) == IF w = 1 THEN <<"a1", "a2">> ELSE <<"b1">>

\* The file after `block` is written at the offset `at` of an open handle;
\* the blocks a truncation has removed before that offset read as "NUL".
written_at(file, at, block) ==
    [i \in 1..(IF Len(file) > at THEN Len(file) ELSE at + 1) |->
        IF i = at + 1 THEN block ELSE IF i <= Len(file) THEN file[i] ELSE "NUL"]

MovesEnded == Cardinality({w \in WriterThreads : writers[w].order > 0})

WrInit ==
    /\ writers = [w \in WriterThreads |-> IdleWriter]
    /\ wr_target \in {None, Some(<<"old">>)}

\* tempfile.NamedTemporaryFile(mode='w', suffix='.tmp', dir=file_path.parent, delete=False)
wr_create_temp(w) ==
    /\ writers[w].pc = "idle"
    /\ writers' = [writers EXCEPT ![w].pc = "dump", ![w].temp = Some(<<>>)]
    /\ UNCHANGED wr_target

\* json.dump(data, temp_file, indent=2, ensure_ascii=False) and the end of
\* the with block; or the dump raises, and the except branch unlinks the
\* temporary file and raises again.
wr_dump(w) ==
    /\ writers[w].pc = "dump"
    /\ \/ writers' = [writers EXCEPT ![w].pc = "move", ![w].temp = Some(WriterData(w))]
       \/ writers' = [writers EXCEPT ![w].pc = "raised", ![w].temp = None]
    /\ UNCHANGED wr_target

\* A faulty variant: the rename puts an empty file at the target.
renamed_empty(temp) == Some(<<>>)

\* The target after os.rename(temp, file_path)
renamed(temp) == temp

\* shutil.move(str(temp_file_path), str(file_path)): os.rename replaces the
\* target in one step; on nt it raises when the target exists, and
\* shutil.move falls back to copy2, which opens the target for writing.
wr_move(w) ==
    /\ writers[w].pc = "move"
    /\ IF platform = "posix" \/ wr_target = None
       THEN /\ wr_target' = renamed(writers[w].temp)
            /\ writers' = [writers EXCEPT ![w].pc = "done", ![w].temp = None,
                                          ![w].order = MovesEnded + 1]
       ELSE /\ wr_target' = Some(<<>>)
            /\ writers' = [writers EXCEPT ![w].pc = "copy", ![w].offset = 0]

\* copy2 writes the next block of the temporary file through its handle of
\* the target.
wr_copy_block(w) ==
    /\ writers[w].pc = "copy"
    /\ writers[w].offset < Len(writers[w].temp[1])
    /\ wr_target' = Some(written_at(wr_target[1], writers[w].offset,
                                    writers[w].temp[1][writers[w].offset + 1]))
    /\ writers' = [writers EXCEPT ![w].offset = @ + 1]

\* copy2 has written every block: os.unlink(src) ends shutil.move.
wr_unlink(w) ==
    /\ writers[w].pc = "copy"
    /\ writers[w].offset = Len(writers[w].temp[1])
    /\ writers' = [writers EXCEPT ![w].pc = "done", ![w].temp = None,
                                  ![w].order = MovesEnded + 1]
    /\ UNCHANGED wr_target

\* ------------------------------------------- ThreadSafeSessionManager

\* SessionState(): the defaults of the dataclass. A progress message is the
\* number of the add_progress_message call that made it.
NewSessionState ==
    [research_running |-> FALSE, research_result |-> None,
     progress_messages |-> <<>>, error_message |-> None]

\* update_state(**kwargs), lines 57-69: setattr for every key the state has.
update_state(state, kwargs) ==
    [k \in DOMAIN state |-> IF k \in DOMAIN kwargs THEN kwargs[k] ELSE state[k]]

\* state.progress_messages[-n:]
LastOf(kept, n) ==
    IF Len(kept) > n THEN SubSeq(kept, Len(kept) - n + 1, Len(kept))
    ELSE kept

\* A faulty variant: the oldest messages are kept.
kept_messages_oldest(kept) ==
    IF Len(kept) > max_progress_messages
    THEN SubSeq(kept, 1, max_progress_messages) ELSE kept

\* if len(state.progress_messages) > 20: state.progress_messages = state.progress_messages[-20:]
kept_messages(kept) ==
    IF Len(kept) > max_progress_messages
    THEN LastOf(kept, max_progress_messages) ELSE kept

\* add_progress_message, lines 73-90
add_progress_message(state, entry) ==
    [state EXCEPT !.progress_messages = kept_messages(Append(@, entry))]

\* clear_progress_messages, lines 96-100
clear_progress_messages(state) == [state EXCEPT !.progress_messages = <<>>]

\* set_research_result, lines 117-121
set_research_result(state, res) ==
    update_state(state, [research_result |-> res, research_running |-> FALSE])

\* A faulty variant: the error is stored and the research is left running.
set_error_keeps_running(state, error_message) ==
    update_state(state, [error_message |-> Some(error_message)])

\* set_error, lines 127-131
set_error(state, error_message) ==
    update_state(state, [error_message |-> Some(error_message), research_running |-> FALSE])

\* clear_error, lines 137-138
clear_error(state) == update_state(state, [error_message |-> None])

\* set_research_running, lines 106-111, as one step
set_research_running(state, running) ==
    LET updated == update_state(state, [research_running |-> running])
    IN IF running
       THEN update_state(clear_progress_messages(updated), [error_message |-> None])
       ELSE updated

\* The threads that call the methods of one manager.
SessionThreads == {1, 2}

\* The calls: the method and its argument.
SessionCalls ==
    {[method |-> "add_progress_message", arg |-> None],
     [method |-> "clear_progress_messages", arg |-> None],
     [method |-> "set_research_running", arg |-> Some(TRUE)],
     [method |-> "set_research_running", arg |-> Some(FALSE)],
     [method |-> "set_research_result", arg |-> Some("r")],
     [method |-> "set_error", arg |-> Some("e")],
     [method |-> "clear_error", arg |-> None]}

IdleCall == [pc |-> "idle", method |-> "none", arg |-> None]

\* st.session_state.app_state is made by the first get_state.
SesInit ==
    /\ session = NewSessionState
    /\ ses_lock = None
    /\ ses_threads = [t \in SessionThreads |-> IdleCall]
    /\ ses_added = <<>>
    /\ ses_count = 0

SesIdle == SesInit

\* `with self._lock:` at the head of a method: the thread takes the RLock
\* when no other thread holds it.
ses_enter(t) ==
    /\ ses_threads[t].pc = "idle"
    /\ ses_lock = None
    /\ \E c \in SessionCalls :
         /\ c.method = "add_progress_message" => ses_count < MaxAdds
         /\ ses_threads' = [ses_threads EXCEPT ![t] =
                               [pc |-> "body", method |-> c.method, arg |-> c.arg]]
    /\ ses_lock' = Some(t)
    /\ UNCHANGED <<session, ses_added, ses_count>>

\* The thread leaves the with block of its method.
Leave(t) ==
    /\ ses_threads' = [ses_threads EXCEPT ![t] = IdleCall]
    /\ ses_lock' = None

\* The body of a method up to its first call of another method of the
\* manager, or all of it when it calls none.
ses_body(t) ==
    /\ ses_threads[t].pc = "body" /\ ses_lock = Some(t)
    /\ LET c == ses_threads[t]
       IN CASE c.method = "add_progress_message" ->
                 /\ session' = add_progress_message(session, ses_count + 1)
                 /\ ses_added' = Append(ses_added, ses_count + 1)
                 /\ ses_count' = ses_count + 1
                 /\ Leave(t)
            [] c.method = "clear_progress_messages" ->
                 /\ session' = clear_progress_messages(session)
                 /\ ses_added' = <<>>
                 /\ UNCHANGED ses_count
                 /\ Leave(t)
            [] c.method = "set_research_running" ->
                 /\ session' = update_state(session, [research_running |-> c.arg[1]])
                 /\ UNCHANGED <<ses_added, ses_count>>
                 /\ IF c.arg[1]
                    THEN /\ ses_threads' = [ses_threads EXCEPT ![t].pc = "clear"]
                         /\ UNCHANGED ses_lock
                    ELSE Leave(t)
            [] c.method = "set_research_result" ->
                 /\ session' = set_research_result(session, c.arg)
                 /\ UNCHANGED <<ses_added, ses_count>>
                 /\ Leave(t)
            [] c.method = "set_error" ->
                 /\ session' = set_error(session, c.arg[1])
                 /\ UNCHANGED <<ses_added, ses_count>>
                 /\ Leave(t)
            [] c.method = "clear_error" ->
                 /\ session' = clear_error(session)
                 /\ UNCHANGED <<ses_added, ses_count>>
                 /\ Leave(t)

\* set_research_running(True), line 110: self.clear_progress_messages()
ses_clear(t) ==
    /\ ses_threads[t].pc = "clear" /\ ses_lock = Some(t)
    /\ session' = clear_progress_messages(session)
    /\ ses_added' = <<>>
    /\ ses_threads' = [ses_threads EXCEPT ![t].pc = "clear_error"]
    /\ UNCHANGED <<ses_lock, ses_count>>

\* set_research_running(True), line 111: self.update_state(error_message=None)
ses_clear_error(t) ==
    /\ ses_threads[t].pc = "clear_error" /\ ses_lock = Some(t)
    /\ session' = update_state(session, [error_message |-> None])
    /\ Leave(t)
    /\ UNCHANGED <<ses_added, ses_count>>

\* ------------------------------------------------------- the web flow

\* The researches one browser session starts. Each is started by its own
\* script run, that is by its own StreamlitApp (main, line 437) with its own
\* ResearchService, Future, throttled callback and completion timer; all of
\* them share the session manager and st.session_state.
WebRuns == 1 .. MaxWebRuns

\* What _conduct_research_sync returns: it catches every exception.
WebOutcomes == {"success", "failure"}

NewWebRun ==
    [worker |-> "none", events |-> 0, outcome |-> None, timer |-> "none",
     handled |-> 0, stopped |-> "no", follows |-> {}, after_stop |-> 0]

\* Stop Research was pressed while the research was executing on a worker.
StoppedOnWorker(r) == web_runs[r].stopped \in {"running", "returning"}

\* result.to_dict() of the run
result_dict(r, outcome) == [run |-> r, success |-> outcome = "success"]

\* The entry add_progress_message stores, with the run it comes from
\* (0: the script run of a button).
Entry(r, kind) == [run |-> r, kind |-> kind]

WfInit ==
    /\ web_runs = [r \in WebRuns |-> NewWebRun]
    /\ web_clicks = 0

WfIdle == WfInit

\* "Start Research" is pressed (the button is disabled while
\* is_research_running()): _start_research with a valid query.
web_start_research(r) ==
    /\ ~session.research_running
    /\ web_runs[r].worker = "none"
    /\ \A q \in WebRuns : q < r => web_runs[q].worker # "none"
    /\ session' = set_research_running(clear_progress_messages(clear_error(session)), TRUE)
    /\ web_runs' = [web_runs EXCEPT
                       ![r].worker = "pending",
                       ![r].timer = "armed",
                       ![r].follows = {q \in WebRuns : StoppedOnWorker(q)}]
    /\ UNCHANGED web_clicks

\* A worker of the executor takes the task.
web_worker_start(r) ==
    /\ web_runs[r].worker = "pending"
    /\ web_runs' = [web_runs EXCEPT ![r].worker = "running"]
    /\ UNCHANGED <<session, web_clicks>>

\* The worker reports progress below 1.0: the ThrottledProgressCallback
\* forwards the call or suppresses it (it forwards the first one, its
\* last_call_time being 0), and the callback of create_callback adds the
\* message to the session.
web_worker_progress(r) ==
    /\ web_runs[r].worker = "running"
    /\ web_runs[r].events < MaxWebEvents
    /\ \E forwarded \in BOOLEAN :
         /\ web_runs[r].events = 0 => forwarded
         /\ session' = IF forwarded
                       THEN add_progress_message(session, Entry(r, "progress"))
                       ELSE session
         /\ web_runs' = [web_runs EXCEPT
                            ![r].events = @ + 1,
                            ![r].after_stop = IF forwarded /\ StoppedOnWorker(r)
                                              THEN @ + 1 ELSE @]
    /\ UNCHANGED web_clicks

\* The worker reports progress 1.0, which is always forwarded, on the success
\* path or in the except branch of _conduct_research_sync.
web_worker_final(r) ==
    /\ web_runs[r].worker = "running"
    /\ \E outcome \in WebOutcomes :
         web_runs' = [web_runs EXCEPT
                         ![r].worker = "returning",
                         ![r].outcome = Some(outcome),
                         ![r].after_stop = IF StoppedOnWorker(r) THEN @ + 1 ELSE @]
    /\ session' = add_progress_message(session, Entry(r, "final"))
    /\ UNCHANGED web_clicks

\* _conduct_research_sync returns its ResearchResult: the Future is done.
web_worker_return(r) ==
    /\ web_runs[r].worker = "returning"
    /\ web_runs' = [web_runs EXCEPT ![r].worker = "done"]
    /\ UNCHANGED <<session, web_clicks>>

\* The Timer of the run fires: _check_research_completion up to the first
\* call of the completion callback on the session manager.
web_check_completion(r) ==
    /\ web_runs[r].timer = "armed"
    /\ IF web_runs[r].worker = "done"
       THEN /\ session' = set_research_result(
                              session, Some(result_dict(r, web_runs[r].outcome[1])))
            /\ web_runs' = [web_runs EXCEPT
                               ![r].handled = @ + 1,
                               ![r].timer = IF web_runs[r].outcome = Some("success")
                                            THEN "add_message" ELSE "set_error"]
       ELSE /\ web_runs' = [web_runs EXCEPT
                               ![r].timer = IF session.research_running
                                            THEN "armed" ELSE "none"]
            /\ UNCHANGED session
    /\ UNCHANGED web_clicks

\* completion_callback with a result that is no success: set_error
web_completion_set_error(r) ==
    /\ web_runs[r].timer = "set_error"
    /\ session' = set_error(session, Entry(r, "failure"))
    /\ web_runs' = [web_runs EXCEPT ![r].timer = "add_message"]
    /\ UNCHANGED web_clicks

\* completion_callback: the completion message
web_completion_message(r) ==
    /\ web_runs[r].timer = "add_message"
    /\ session' = add_progress_message(
                      session,
                      Entry(r, IF web_runs[r].outcome = Some("success")
                               THEN "completed" ELSE "failed"))
    /\ web_runs' = [web_runs EXCEPT ![r].timer = "save_log"]
    /\ UNCHANGED web_clicks

\* _check_research_completion: save_research_log and set_log_file (the
\* modelled fields of the session stay), or save_research_log raises and the
\* error callback sets the error and adds its message.
web_save_log(r) ==
    /\ web_runs[r].timer = "save_log"
    /\ \E saved \in BOOLEAN :
         session' = IF saved THEN session
                    ELSE add_progress_message(set_error(session, Entry(r, "log")),
                                              Entry(r, "failed"))
    /\ web_runs' = [web_runs EXCEPT ![r].timer = "none"]
    /\ UNCHANGED web_clicks

\* "Stop Research" is pressed (the button is there while
\* is_research_running()): _stop_research in a new StreamlitApp, whose
\* research_future is None.
web_stop_research ==
    /\ session.research_running
    /\ web_clicks < MaxWebClicks
    /\ session' = add_progress_message(set_research_running(session, FALSE),
                                       Entry(0, "stopped"))
    /\ web_runs' = [r \in WebRuns |->
                      IF web_runs[r].worker # "none" /\ web_runs[r].stopped = "no"
                      THEN [web_runs[r] EXCEPT !.stopped = web_runs[r].worker]
                      ELSE web_runs[r]]
    /\ web_clicks' = web_clicks + 1

\* "Clear Session" is pressed: _clear_session, reset_session
web_clear_session ==
    /\ web_clicks < MaxWebClicks
    /\ session' = NewSessionState
    /\ web_clicks' = web_clicks + 1
    /\ UNCHANGED web_runs

\* "Load Recent Logs" or "Load Selected Log" is pressed and the log is read.
web_load_log ==
    /\ web_clicks < MaxWebClicks
    /\ session' = set_research_result(session, Some(Entry(0, "log")))
    /\ web_clicks' = web_clicks + 1
    /\ UNCHANGED web_runs

\* ---------------------------------- the references of the research report

\* The url_citation_annotations a message may carry: the url, the title
\* (empty when there is none) and the annotated text (empty when there is
\* none).
Annotations ==
    [url : {<<"u1">>, <<"u2">>}, title : {<<>>, <<"T">>}, text : {<<>>, <<"a">>, <<"b">>}]

RECURSIVE AnnotationLists(_)
AnnotationLists(n) ==
    IF n = 0 THEN {<<>>}
    ELSE LET shorter == AnnotationLists(n - 1)
         IN shorter \cup {Append(l, a) : l \in {k \in shorter : Len(k) = n - 1},
                                         a \in Annotations}

\* citation_key = ann.text if ann.text else f"fallback_{url}"
citation_key(ann) == IF ann.text # <<>> THEN ann.text ELSE <<"fallback_">> \o ann.url

\* f"[{title}]({url})" with title = ann.url_citation.title or url
citation_text(ann) ==
    [title |-> IF ann.title # <<>> THEN ann.title ELSE ann.url, url |-> ann.url]

\* The loop over message.url_citation_annotations, lines 226-241; of
\* citations_ordinals the keys are kept.
RECURSIVE text_citation_list(_, _, _, _)
text_citation_list(annotations, seen_urls, citations_ordinals, list) ==
    IF annotations = <<>> THEN list
    ELSE LET ann == Head(annotations)
             is_new == /\ ann.url \notin seen_urls
                       /\ citation_key(ann) \notin citations_ordinals
         IN text_citation_list(
                Tail(annotations),
                seen_urls \cup {ann.url},
                IF is_new THEN citations_ordinals \cup {citation_key(ann)}
                ELSE citations_ordinals,
                IF is_new THEN Append(list, citation_text(ann)) ELSE list)

\* The lines written after "## Citations", lines 247-248: f"{i + 1}. {citation_text}\n"
references_section(annotations) ==
    LET list == text_citation_list(annotations, {}, {}, <<>>)
    IN [i \in 1 .. Len(list) |-> [number |-> (i - 1) + 1, citation |-> list[i]]]

RefIdle ==
    /\ ref_annotations = <<>>
    /\ ref_written = None

\* A final message with its annotations; nothing is written yet.
RefInit ==
    /\ ref_annotations \in AnnotationLists(MaxAnnotations)
    /\ ref_written = None

\* create_research_summary, lines 218-248: the section is written when the
\* message has annotations.
write_references ==
    /\ ref_written = None
    /\ ref_annotations # <<>>
    /\ ref_written' = Some(references_section(ref_annotations))
    /\ UNCHANGED ref_annotations

\* create_research_summary of a message without annotations: the report ends
\* with the text.
write_no_references ==
    /\ ref_written = None
    /\ ref_annotations = <<>>
    /\ ref_written' = Some(<<>>)
    /\ UNCHANGED ref_annotations

\* ------------------------------------------------------- specifications

Svc(A) == A /\ UNCHANGED <<rdrVars, tpcVars, fsVars, logVars, appVars, rqVars, citVars,
                            supVars, exVars, wrVars, sesVars, wfVars, refVars>>
Rdr(A) == A /\ UNCHANGED <<svcVars, tpcVars, fsVars, logVars, appVars, rqVars, citVars,
                            supVars, exVars, wrVars, sesVars, wfVars, refVars>>
Tpc(A) == A /\ UNCHANGED <<svcVars, rdrVars, fsVars, logVars, appVars, rqVars, citVars,
                            supVars, exVars, wrVars, sesVars, wfVars, refVars>>
Fs(A) == A /\ UNCHANGED <<svcVars, rdrVars, tpcVars, logVars, appVars, rqVars, citVars,
                           supVars, exVars, wrVars, sesVars, wfVars, refVars>>
Log(A) == A /\ UNCHANGED <<svcVars, rdrVars, tpcVars, fsVars, appVars, rqVars, citVars,
                            supVars, exVars, wrVars, sesVars, wfVars, refVars>>
App(A) == A /\ UNCHANGED <<svcVars, rdrVars, tpcVars, fsVars, logVars, rqVars, citVars,
                            supVars, exVars, wrVars, sesVars, wfVars, refVars>>
Rq(A) == A /\ UNCHANGED <<svcVars, rdrVars, tpcVars, fsVars, logVars, appVars, citVars,
                           supVars, exVars, wrVars, sesVars, wfVars, refVars>>
Cit(A) == A /\ UNCHANGED <<svcVars, rdrVars, tpcVars, fsVars, logVars, appVars, rqVars,
                            supVars, exVars, wrVars, sesVars, wfVars, refVars>>
Sup(A) == A /\ UNCHANGED <<svcVars, rdrVars, tpcVars, fsVars, logVars, appVars, rqVars,
                            citVars, exVars, wrVars, sesVars, wfVars, refVars>>
Ex(A) == A /\ UNCHANGED <<svcVars, rdrVars, tpcVars, fsVars, logVars, appVars, rqVars,
                           citVars, supVars, wrVars, sesVars, wfVars, refVars>>
Wr(A) == A /\ UNCHANGED <<svcVars, rdrVars, tpcVars, fsVars, logVars, appVars, rqVars,
                           citVars, supVars, exVars, sesVars, wfVars, refVars>>
Ses(A) == A /\ UNCHANGED <<svcVars, rdrVars, tpcVars, fsVars, logVars, appVars, rqVars,
                            citVars, supVars, exVars, wrVars, wfVars, refVars>>
Web(A) == A /\ UNCHANGED <<svcVars, rdrVars, tpcVars, fsVars, logVars, appVars, rqVars,
                            citVars, supVars, exVars, wrVars,
                            ses_lock, ses_threads, ses_added, ses_count, refVars>>
Ref(A) == A /\ UNCHANGED <<svcVars, rdrVars, tpcVars, fsVars, logVars, appVars, rqVars,
                            citVars, supVars, exVars, wrVars, sesVars, wfVars>>

\* The components that a specification does not exercise stay as they are made.
FilesIdle == FsIdle /\ WrIdle
TextIdle == RqIdle /\ CitIdle /\ SupIdle
MoreIdle == SesIdle /\ WfIdle /\ RefIdle

Init == SvcStart /\ RdrIdle /\ TpcInit /\ FilesIdle /\ LogIdle /\ AppStart /\ TextIdle /\ ExIdle /\ MoreIdle

Next ==
    \/ Svc(conduct_research_sync) \/ Svc(conduct_research_async)
    \/ Svc(worker_run) \/ Svc(future_cancel)
    \/ Svc(notify_starting) \/ Svc(get_client_context)
    \/ Svc(get_research_agent) \/ Svc(create_agent)
    \/ Svc(notify_agent_ready) \/ Svc(create_research_thread)
    \/ Svc(notify_thread_created) \/ Svc(create_run)
    \/ Svc(poll_run) \/ Svc(after_loop)
    \/ Svc(list_messages) \/ Svc(notify_processing)
    \/ Svc(complete) \/ Svc(handle_exception)
    \/ App(cli_execute_research) \/ App(check_research_completion)

\* One call of ResearchService._conduct_research_sync, direct or through the
\* executor, and what its caller does with the outcome.
Spec == Init /\ [][Next]_vars

\* The service call has not begun while run_deep_research runs.
SvcIdle ==
    /\ request = [query |-> Query, max_iterations |-> 1, timeout_seconds |-> 300,
                  enable_citations |-> TRUE]
    /\ progress_callback = "none"
    /\ pc = "idle" /\ future = "none" /\ cancelled_at = "never"
    /\ client = FALSE
    /\ remote_agents = <<>>
    /\ listed_agents = None
    /\ agent = None /\ thread = None /\ run = None
    /\ iteration = 0
    /\ messages = None /\ result_content = None /\ exc = None /\ result = None
    /\ events = <<>>
    /\ created = [agents |-> 0, threads |-> 0, messages |-> 0, runs |-> 0]
    /\ polls = 0 /\ polls_after_cancel = 0
    /\ remote_failed = FALSE

InitRunDeepResearch ==
    SvcIdle /\ RdrInit /\ TpcInit /\ FilesIdle /\ LogIdle /\ AppIdle /\ TextIdle /\ ExIdle /\ MoreIdle

NextRunDeepResearch ==
    \/ Rdr(rdr_setup) \/ Rdr(rdr_create_agent) \/ Rdr(rdr_create_run)
    \/ Rdr(rdr_poll) \/ Rdr(rdr_after_loop)
    \/ Rdr(rdr_research_summary) \/ Rdr(rdr_delete_agent)

\* One call of run_deep_research.
SpecRunDeepResearch == InitRunDeepResearch /\ [][NextRunDeepResearch]_vars

\* A call that found the agent, made its thread and run, and saw the run
\* completed at the first poll: it is about to list the messages.
AtListing ==
    /\ request.query = Query /\ request.max_iterations = 1
    /\ progress_callback = "none"
    /\ pc = "list_messages" /\ future = "none" /\ cancelled_at = "never"
    /\ client = TRUE
    /\ remote_agents = <<MyAgent(1), ResearchBot(2)>>
    /\ listed_agents = Some(remote_agents)
    /\ agent = Some(ResearchBot(2)) /\ thread = Some([id |-> 1])
    /\ run = Some([id |-> 1, status |-> "completed", last_error |-> "None"])
    /\ iteration = 0
    /\ messages = None /\ result_content = None /\ exc = None /\ result = None
    /\ events = <<>>
    /\ created = [agents |-> 0, threads |-> 1, messages |-> 1, runs |-> 1]
    /\ polls = 1 /\ polls_after_cancel = 0
    /\ remote_failed = FALSE

InitContent ==
    /\ request \in [query : {Query}, max_iterations : {1}, timeout_seconds : {300},
                    enable_citations : BOOLEAN]
    /\ AtListing
    /\ RdrIdle
    /\ TpcInit
    /\ FilesIdle /\ LogIdle /\ AppIdle /\ TextIdle /\ ExIdle /\ MoreIdle

NextContent ==
    \/ Svc(list_messages_from(ThreadMessageLists)) \/ Svc(notify_processing)
    \/ Svc(complete) \/ Svc(handle_exception)

\* The end of a call, from the listing of the messages on, for every listing.
SpecContent == InitContent /\ [][NextContent]_vars

InitThrottle ==
    SvcIdle /\ RdrIdle /\ TpcInit /\ FilesIdle /\ LogIdle /\ AppIdle /\ TextIdle /\ ExIdle /\ MoreIdle

NextThrottle ==
    \/ Tpc(clock_tick)
    \/ \E t \in ProducerThreads : Tpc(tpc_read_clock(t))
    \/ \E t \in ProducerThreads : Tpc(tpc_locked(t))

\* Producer threads reporting through one ThrottledProgressCallback.
SpecThrottle == InitThrottle /\ [][NextThrottle]_vars

InitFiles ==
    SvcIdle /\ RdrIdle /\ TpcInit /\ FsInit /\ WrIdle /\ LogIdle /\ AppIdle /\ TextIdle /\ ExIdle /\ MoreIdle

NextFiles ==
    \/ Fs(fs_call) \/ Fs(fs_validate_file_path)
    \/ Fs(fs_write_json) \/ Fs(fs_write_text)
    \/ Fs(fs_create_temp) \/ Fs(fs_dump) \/ Fs(fs_move) \/ Fs(fs_copy)
    \/ Fs(fs_direct_open) \/ Fs(fs_direct_dump)
    \/ Fs(fs_read_json) \/ Fs(fs_delete_file)
    \/ Fs(fs_backup_context) \/ Fs(fs_backup_copy)
    \/ Fs(fs_block) \/ Fs(fs_block_writing)
    \/ Fs(fs_backup_exit) \/ Fs(fs_backup_except)
    \/ Fs(fs_crash)

\* Calls of one SecureFileHandler on one path.
SpecFiles == InitFiles /\ [][NextFiles]_vars

InitLogs ==
    SvcIdle /\ RdrIdle /\ TpcInit /\ FilesIdle /\ LogInit /\ AppIdle /\ TextIdle /\ ExIdle /\ MoreIdle

NextLogs ==
    \/ Log(save_research_log) \/ Log(write_json)
    \/ Log(load_research_logs) \/ Log(log_tick)

\* The logs of one ResearchService, saved and loaded by one thread.
SpecLogs == InitLogs /\ [][NextLogs]_vars

InitRequest ==
    SvcIdle /\ RdrIdle /\ TpcInit /\ FilesIdle /\ LogIdle /\ AppIdle /\ RqInit /\ CitIdle
    /\ SupIdle /\ ExIdle /\ MoreIdle

NextRequest == Rq(validate_query) \/ Rq(construct_request)

\* A query is validated and a ResearchRequest is made of it.
SpecRequest == InitRequest /\ [][NextRequest]_vars

InitCitations ==
    SvcIdle /\ RdrIdle /\ TpcInit /\ FilesIdle /\ LogIdle /\ AppIdle /\ RqIdle /\ CitInit
    /\ SupIdle /\ ExIdle /\ MoreIdle

NextCitations == Cit(extract_match) \/ Cit(extract_return)

\* One call of extract_citations.
SpecCitations == InitCitations /\ [][NextCitations]_vars

InitSuperscript ==
    SvcIdle /\ RdrIdle /\ TpcInit /\ FilesIdle /\ LogIdle /\ AppIdle /\ RqIdle /\ CitIdle
    /\ SupInit /\ ExIdle /\ MoreIdle

NextSuperscript == Sup(summary_to_superscript) \/ Sup(result_to_superscript)

\* One content is converted, by the one function or by the other.
SpecSuperscript == InitSuperscript /\ [][NextSuperscript]_vars

InitExecutor ==
    SvcIdle /\ RdrIdle /\ TpcInit /\ FilesIdle /\ LogIdle /\ AppIdle /\ TextIdle /\ ExIdle /\ MoreIdle

NextExecutor ==
    \/ \E c \in Callers : Ex(executor_submit(c))
    \/ Ex(executor_worker)
    \/ \E c \in Callers : Ex(sync_call(c))
    \/ \E c \in Callers : Ex(execution_returns(c))
    \/ \E c \in Callers : Ex(caller_continues(c))

\* The threads that call one ResearchService, and the workers of its executor.
SpecExecutor == InitExecutor /\ [][NextExecutor]_vars

InitWriters ==
    /\ SvcIdle /\ RdrIdle /\ TpcInit /\ LogIdle /\ AppIdle /\ TextIdle /\ ExIdle /\ MoreIdle
    /\ platform \in {"posix", "nt"} /\ file_path = <<"a", ".", "json">>
    /\ FsNew /\ files.target = None
    /\ WrInit

NextWriters ==
    \E w \in WriterThreads :
        \/ Wr(wr_create_temp(w))
        \/ Wr(wr_dump(w))
        \/ Wr(wr_move(w))
        \/ Wr(wr_copy_block(w))
        \/ Wr(wr_unlink(w))

\* Two threads write one path with _atomic_write_json.
SpecWriters == InitWriters /\ [][NextWriters]_vars

InitSession ==
    /\ SvcIdle /\ RdrIdle /\ TpcInit /\ FilesIdle /\ LogIdle /\ AppIdle /\ TextIdle
    /\ ExIdle /\ SesInit /\ WfIdle /\ RefIdle

NextSession ==
    \E t \in SessionThreads :
        \/ Ses(ses_enter(t))
        \/ Ses(ses_body(t))
        \/ Ses(ses_clear(t))
        \/ Ses(ses_clear_error(t))

\* Threads calling the methods of one ThreadSafeSessionManager.
SpecSession == InitSession /\ [][NextSession]_vars

InitWeb ==
    /\ SvcIdle /\ RdrIdle /\ TpcInit /\ FilesIdle /\ LogIdle /\ AppIdle /\ TextIdle
    /\ ExIdle /\ SesIdle /\ WfInit /\ RefIdle

\* What the worker of a research and its timer do.
WebThreads(r) ==
    \/ Web(web_worker_start(r))
    \/ Web(web_worker_progress(r))
    \/ Web(web_worker_final(r))
    \/ Web(web_worker_return(r))
    \/ Web(web_check_completion(r))
    \/ Web(web_completion_set_error(r))
    \/ Web(web_completion_message(r))
    \/ Web(web_save_log(r))

NextWeb ==
    \/ \E r \in WebRuns : Web(web_start_research(r))
    \/ \E r \in WebRuns : WebThreads(r)
    \/ Web(web_stop_research)
    \/ Web(web_clear_session)
    \/ Web(web_load_log)

\* One browser session of the web application.
SpecWeb == InitWeb /\ [][NextWeb]_vars

\* The same, with the worker and the timer of every research scheduled
\* again and again; the user is free to press nothing.
SpecWebLive == SpecWeb /\ \A r \in WebRuns : WF_vars(WebThreads(r))

InitReferences ==
    /\ SvcIdle /\ RdrIdle /\ TpcInit /\ FilesIdle /\ LogIdle /\ AppIdle /\ TextIdle
    /\ ExIdle /\ SesIdle /\ WfIdle /\ RefInit

NextReferences == Ref(write_references) \/ Ref(write_no_references)

\* create_research_summary writing the references of one final message.
SpecReferences == InitReferences /\ [][NextReferences]_vars

\* ---------------------------------------------------------- the claims

Returned == pc = "returned"
Ended == pc \in {"returned", "raised"}

TerminalFailureStates == {"failed", "cancelled", "expired"}

\* C1: with a progress callback that does not raise (or none), the call never
\* raises, whatever the remote service does; and every call that ends after a
\* remote call failed, or through the except branch, returns a result with
\* success = false and a non-empty error message.
C1_FailuresAreReturned ==
    /\ progress_callback # "faulty" => pc # "raised"
    /\ (Returned /\ (remote_failed \/ exc # None)) =>
          /\ ~result[1].success
          /\ result[1].error_message # None
          /\ result[1].error_message[1] # <<>>

C1_Witness ==
    /\ Returned /\ remote_failed /\ progress_callback = "reliable"
    /\ run # None /\ ~result[1].success

\* C2: a progress callback that raises never changes the outcome: its exception
\* never leaves the call, and a call whose run completed with assistant content
\* returns success = true.
C2_CallbackFailureIsolated ==
    /\ pc # "raised"
    /\ (Returned /\ result_content # None) => result[1].success

\* C3: a run of run_deep_research whose last fetched status is failed, cancelled
\* or expired produces no report.
C3_TerminalFailureGivesNoReport ==
    (rdr_pc = "returned" /\ rdr_run[1].status \in TerminalFailureStates) =>
        (rdr_report = None /\ rdr_returned[1][2] = "")

\* C4: a call whose run was polled max_iterations times without reaching a
\* terminal state returns success = false with an error message that, after the
\* two fixed prefixes, starts as the budget message and not as the message of a
\* failed run; a run reported failed, cancelled or expired returns
\* success = false with the message of a failed run and not the budget message.
C4_BudgetFailureIsDistinct ==
    (Returned /\ run # None /\ exc # None) =>
        LET msg == result[1].error_message[1]
            budget == msg[3] = "Research did not complete within "
            remote == msg[3] = "Research run "
        IN /\ (iteration = request.max_iterations /\ run[1].status # "completed")
                 => (~result[1].success /\ budget /\ ~remote)
           /\ run[1].status \in TerminalFailureStates
                 => (~result[1].success /\ remote /\ ~budget)

C4_Witness ==
    /\ Returned /\ request.max_iterations = 3 /\ iteration = 3 /\ polls = 3
    /\ run[1].status = "in_progress"
    /\ ~result[1].success

\* C5: the poll loop fetches the run status at most as often as the largest
\* iteration budget allows, in _execute_research and in run_deep_research.
C5_PollsWithinBudget ==
    /\ polls <= request.max_iterations
    /\ rdr_iteration_count <= MaxIterationsLimit

\* C6: a cancellation requested before the task started keeps it from running;
\* one requested while the poll loop is in flight is seen at the next iteration
\* boundary, so at most the fetch under way follows it, and the call does not
\* end with a successful result.
C6_CancellationIsObserved ==
    /\ cancelled_at = "pending" => pc = "idle"
    /\ cancelled_at = "polling" =>
          /\ polls_after_cancel <= 1
          /\ Returned => ~result[1].success

\* C7: a call of run_deep_research that obtained an agent has asked the remote
\* to delete it when it ends, by return or by exception.
C7_AgentDeletedOnEveryOutcome ==
    (rdr_pc \in {"returned", "raised"} /\ rdr_agent # None) =>
        rdr_agent[1].id \in rdr_deleted

\* C8: a call creates at most one agent, one thread and one run; once it polls
\* it has created exactly one thread and one run; and it created an agent only
\* if no agent listed at discovery carried a matching name.
C8_OneAgentThreadRun ==
    /\ created.agents <= 1 /\ created.threads <= 1 /\ created.runs <= 1
    /\ (pc = "poll" \/ polls > 0) => (created.threads = 1 /\ created.runs = 1)
    /\ created.agents = 1 =>
          /\ listed_agents # None
          /\ \A i \in 1..Len(listed_agents[1]) : ~is_research_agent(listed_agents[1][i])

C8_Witness ==
    /\ pc = "poll" /\ polls = 1 /\ created.agents = 1
    /\ Len(listed_agents[1]) = 1

\* C9: the returned result carries the id of every remote object the call
\* holds, also when success = false.
C9_ResultCarriesIds ==
    Returned =>
        LET m == result[1].metadata
        IN /\ agent # None => ("agent_id" \in DOMAIN m /\ m.agent_id = agent[1].id)
           /\ thread # None => ("thread_id" \in DOMAIN m /\ m.thread_id = thread[1].id)
           /\ run # None => ("run_id" \in DOMAIN m /\ m.run_id = run[1].id)

IsAssistant(m) == m.role = "assistant"
IsBlank(text) == \A i \in 1..Len(text) : IsSpace(text[i])

\* C10: a completed run whose listing holds no assistant message with
\* non-blank text gives success = false; otherwise the result is a success
\* whose content is not empty and is made of the text of the most recent
\* assistant message with non-blank text alone, whatever the other messages are.
C10_ContentOfLatestAssistantMessage ==
    (Returned /\ messages # None) =>
        LET am == SelectSeq(messages[1], IsAssistant)
            nb == {i \in 1..Len(am) : ~IsBlank(message_text(am[i].content))}
        IN IF nb = {}
           THEN ~result[1].success /\ result[1].content = <<>>
           ELSE LET first == CHOOSE i \in nb : \A j \in nb : i <= j
                    text == Strip(message_text(am[first].content))
                IN /\ result[1].success
                   /\ result[1].content # <<>>
                   /\ result[1].content =
                        IF request.enable_citations THEN convert_to_superscript(text)
                        ELSE text

C10_Witness ==
    /\ Returned /\ result[1].success /\ request.enable_citations
    /\ Len(messages[1]) = 3
    /\ messages[1][1].role = "user" /\ ~IsBlank(message_text(messages[1][1].content))
    /\ messages[1][2].role = "assistant" /\ IsBlank(message_text(messages[1][2].content))
    /\ messages[1][3].role = "assistant"
    /\ result[1].content = <<"a", "<sup>", "[", "1", "]", "</sup>">>

\* Order of two fractions with positive denominators.
FracLeq(a, b) == a.num * b.den <= b.num * a.den
FracLess(a, b) == a.num * b.den < b.num * a.den

IsLoopEvent(e) == e.message = "Research in progress..."

\* C11: the progress values a call passes to its callback never decrease and
\* lie between 0 and 1; the k-th value passed inside the poll loop is
\* 0.2 + ((k - 1) / max_iterations) * 0.7, which is at least 0.2 and below 0.9.
C11_ProgressNonDecreasing ==
    \A k \in 1..Len(events) :
        LET p == events[k].progress
            earlier == Cardinality({j \in 1..(k - 1) : IsLoopEvent(events[j])})
        IN /\ p.den > 0 /\ 0 <= p.num /\ p.num <= p.den
           /\ k > 1 => FracLeq(events[k - 1].progress, p)
           /\ IsLoopEvent(events[k]) =>
                 /\ p.num * 10 * request.max_iterations =
                        p.den * (2 * request.max_iterations + 7 * earlier)
                 /\ FracLeq([num |-> 2, den |-> 10], p)
                 /\ FracLess(p, [num |-> 9, den |-> 10])

C11_Witness ==
    /\ Returned /\ result[1].success
    /\ request.max_iterations = 3
    /\ Len(events) = 7
    /\ events[4].progress = [num |-> 6, den |-> 30]
    /\ events[5].progress = [num |-> 13, den |-> 30]
    /\ events[6].progress = [num |-> 9, den |-> 10]
    /\ events[7].progress = [num |-> 10, den |-> 10]

\* The calls made so far carry these progress values, in this order, and their
\* clock readings lie less than the minimum interval apart.
CallsWere(values) ==
    /\ Len(calls) = Len(values)
    /\ \A i \in 1..Len(calls) : calls[i].progress = values[i]
    /\ \A i, j \in 1..Len(calls) :
          Abs(calls[i].current_time - calls[j].current_time) < min_interval_seconds

\* C12: a call is forwarded to the sink exactly when the time since the last
\* forwarded call is at least the minimum interval, or the progress differs
\* from the last forwarded one by at least the minimum delta, or the progress
\* is 0.0, or it is at least 1.0; a call with 0.0 or at least 1.0 is always
\* forwarded.
C12_ForwardedIffDue ==
    decision # None =>
        LET d == decision[1]
        IN /\ d.forwarded <=>
                \/ d.current_time - d.prev_call_time >= min_interval_seconds
                \/ Abs(d.progress - d.prev_progress) >= min_progress_delta
                \/ d.progress = 0
                \/ d.progress >= 100
           /\ (d.progress = 0 \/ d.progress >= 100) => d.forwarded

C12_Witness ==
    /\ decision # None
    /\ decision[1].progress = 0 /\ decision[1].prev_progress = 0
    /\ decision[1].time_elapsed < min_interval_seconds
    /\ decision[1].forwarded
    /\ \E i \in 1..Len(calls) : ~calls[i].forwarded

\* C13 as stated: of the calls 0.0, 0.3, 0.31, 1.0 made within less than the
\* minimum interval, the one with 0.31 is suppressed and the others are forwarded.
C13_SecondIntermediateSuppressed ==
    CallsWere(<<0, 30, 31, 100>>) =>
        /\ calls[1].forwarded /\ calls[2].forwarded /\ calls[4].forwarded
        /\ ~calls[3].forwarded

\* C13: the calls 0.0, 0.3, 0.31, 1.0 made within less than the minimum
\* interval are all forwarded: the change from 0.3 to 0.31 is not below the
\* minimum delta of 0.01.
C13_AllFourForwarded ==
    CallsWere(<<0, 30, 31, 100>>) => \A i \in 1..4 : calls[i].forwarded

C13_Witness ==
    /\ CallsWere(<<0, 30, 31, 100>>)
    /\ \A i \in 1..4 : calls[i].forwarded /\ calls[i].current_time = ClockStart
    /\ decision[1].prev_progress = 31
    /\ last_progress = 100

\* C14: every progress value passed to the sink, and the stored last
\* progress, lies between 0.0 and 1.0, whatever the values of the calls.
C14_ProgressClamped ==
    /\ \A i \in 1..Len(calls) :
          calls[i].forwarded => (0 <= calls[i].progress /\ calls[i].progress <= 100)
    /\ 0 <= last_progress /\ last_progress <= 100

\* C15: with several producers, every pass through the callback leaves the
\* last call time no earlier than it was, and the last progress is that of
\* the latest event the sink took.
C15_StateConsistent ==
    decision # None =>
        LET d == decision[1]
        IN /\ last_call_time >= d.prev_call_time
           /\ last_progress = IF d.returned THEN d.progress ELSE d.prev_progress

\* C16: during and after an atomic write_json, whatever step fails or is cut
\* off by a crash, the target holds what it held when the call began (or is
\* absent if it was) or the whole new document, never a part of one.
C16_AtomicWriteNeverPartial ==
    (fs_op.name = "write_json" /\ fs_op.atomic) =>
        \/ files.target = fs_entry
        \/ fs_data # None /\ files.target = File(fs_data[1], TRUE)

\* The keys of the dict and of the dicts in it are all str.
RECURSIVE HasStrKeys(_)
HasStrKeys(v) ==
    IF v.kind = "dict"
    THEN \A i \in 1..Len(v.pairs) : ~v.pairs[i].key.int /\ HasStrKeys(v.pairs[i].value)
    ELSE IF v.kind = "list" THEN \A i \in 1..Len(v.items) : HasStrKeys(v.items[i])
    ELSE TRUE

\* A read_json that follows a write_json which returned has ended.
ReadAfterWrite ==
    /\ fs_op.name = "read_json" /\ fs_pc \in {"returned", "raised"}
    /\ fs_prev # None /\ fs_prev[1].name = "write_json"

HasParentSegment(path) ==
    \E i \in 1..Len(Parts(path)) : Parts(path)[i] = <<".", ".">>
LiesInsideBase(path) ==
    ~HasParentSegment(path) /\ (IsAbsolute(path) => IsRelativeTo(Parts(path), BaseDirectory))
MustBeRejected(path) ==
    \/ HasParentSegment(path)
    \/ ~LiesInsideBase(path)
    \/ ~has_allowed_extension(resolved_path(path))

PathWasRejected ==
    fs_pc = "raised" /\ fs_value # None /\ fs_value[1].msg[1] = "Invalid file path: "

\* C18: every call rejects, before it touches the file system, a path with a
\* parent-directory segment, a path outside the base directory and a path
\* whose extension is not allowed, and accepts every other path.
C18_PathsRejectedOrAccepted ==
    fs_pc \notin {"ready", "validate", "crashed"} =>
        /\ PathWasRejected <=> MustBeRejected(file_path)
        /\ PathWasRejected => (~fs_touched /\ files.target = fs_entry)

\* The texts of the string values in a structure, at every depth.
RECURSIVE StringValues(_)
StringValues(v) ==
    IF v.kind = "str" THEN {v.text}
    ELSE IF v.kind = "dict"
    THEN UNION {StringValues(v.pairs[i].value) : i \in 1..Len(v.pairs)}
    ELSE IF v.kind = "list" THEN UNION {StringValues(v.items[i]) : i \in 1..Len(v.items)}
    ELSE {}

\* The text holds none of the characters html.escape replaces, "&" apart,
\* which an escaped text holds as the start of an entity.
IsEscaped(text) ==
    \A i \in 1..Len(text) :
        /\ text[i] \notin {"<", ">", "\"", "'"}
        /\ text[i] = "&" => (i < Len(text) /\ text[i + 1] \in {"a", "l", "g", "q", "#"})

\* C19: in what write_json writes with sanitize=True every string value, at
\* every depth, is escaped, and every one longer than 10,000 characters has
\* been truncated.
C19_SanitizedAtEveryDepth ==
    (fs_op.name = "write_json" /\ fs_op.sanitize /\ fs_data # None) =>
        \A text \in StringValues(fs_data[1]) :
            /\ IsEscaped(text)
            /\ TextLen(text) > MaxValueLength => text[Len(text)] = "... [TRUNCATED]"

\* C20: when backup_context ends normally no backup is left and the target
\* holds what the guarded block wrote; when the block raised, the target is
\* as it was when the call began, no backup is left, and the exception of the
\* block is raised.
C20_BackupRestoresOnFailure ==
    fs_op.name = "backup_context" =>
        /\ fs_pc = "returned" =>
              (files.backup = None /\ files.target = File(BlockData, TRUE))
        /\ (fs_pc \in {"backup_except", "raised"} /\ fs_touched) =>
              fs_value # None
        /\ (fs_pc = "raised" /\ fs_value = Some(BlockError)) =>
              (files.target = fs_entry /\ files.backup = None)

\* The log files of the directory: those named by the convention.
LogNames(dir) == {n \in DOMAIN dir : matches_log_pattern(n)}

\* The documents of the files `names` of the directory, the latest stored first.
RECURSIVE MostRecentFirst(_, _)
MostRecentFirst(dir, names) ==
    IF names = {} THEN <<>>
    ELSE LET newest == CHOOSE n \in names : \A m \in names : dir[m].mtime <= dir[n].mtime
         IN <<dir[newest].doc>> \o MostRecentFirst(dir, names \ {newest})

\* C21: load_research_logs returns the record of every log file that
\* save_research_log has stored in the directory, the most recent first.
C21_LoadReturnsEveryLog ==
    (log_call # None /\ log_call[1].op = "load_research_logs") =>
        log_call[1].value = MostRecentFirst(log_dir, LogNames(log_dir))

\* C22: the ResearchResult of an attempt that ended is saved exactly once by
\* the flow that ran it, the CLI's or the web application's, whether the
\* result reports success or failure; no result is saved twice.
C22_PersistedExactlyOnce ==
    /\ app_saves <= 1
    /\ (app_pc = "handled" /\ Returned) => app_saves = 1

\* C23: validate_research_query is idempotent. The query the caller has
\* validated is validated again when the ResearchRequest is made of it: it is
\* accepted again and the request holds it unchanged.
C23_ValidateIdempotent ==
    (rq_validated # None /\ rq_pc \in {"constructed", "raised"}) =>
        /\ rq_error # None => rq_error[1].type = "ValueError"
        /\ rq_request # None => rq_request[1].query = rq_validated[1]

\* The fields are those of a valid request: both bounds hold, and the query
\* holds no harmful character, is not longer than the limit and has
\* MinQueryLength characters or more between its blanks.
IsValidRequest(r) ==
    /\ r.max_iterations \in 1..MaxIterationsLimit
    /\ r.timeout_seconds \in 1..MaxTimeoutSeconds
    /\ \A i \in 1..Len(r.query) : r.query[i] \notin HarmfulChars
    /\ TextLen(r.query) <= MaxQueryLength
    /\ TextLen(Strip(r.query)) >= MinQueryLength

\* The query handed to the constructor.
ConstructorQuery == IF rq_validated = None THEN rq_args.query ELSE rq_validated[1]

\* C27: making a ResearchRequest raises, and leaves no instance, whenever
\* max_iterations is outside 1..50, timeout_seconds is outside 1..3600 or
\* validate_research_query rejects the query; every instance has both bounds
\* satisfied and holds the sanitized query.
C27_InvalidRequestFailsClosed ==
    /\ rq_request # None =>
          /\ rq_error = None
          /\ IsValidRequest(rq_request[1])
          /\ rq_request[1].query = remove_harmful(Strip(ConstructorQuery))
    /\ (/\ rq_pc \in {"constructed", "raised"}
        /\ \/ rq_args.max_iterations \notin 1..MaxIterationsLimit
           \/ rq_args.timeout_seconds \notin 1..MaxTimeoutSeconds
           \/ ~validate_research_query(ConstructorQuery, MaxQueryLength).ok)
          => (rq_pc = "raised" /\ rq_request = None /\ rq_error # None)

\* A request made of the query "<aaa " with both bounds at their limits: it
\* holds "aaa".
C27_Witness ==
    /\ rq_pc = "constructed"
    /\ rq_args = [query |-> <<"<", "a", "a", "a", " ">>, max_iterations |-> MaxIterationsLimit,
                  timeout_seconds |-> MaxTimeoutSeconds]
    /\ rq_validated = None
    /\ rq_request = Some([query |-> <<"a", "a", "a">>, max_iterations |-> MaxIterationsLimit,
                          timeout_seconds |-> MaxTimeoutSeconds])

\* Two citations, or two candidates as citations, are duplicates: the same
\* URL, or titles that are equal but for their case.
AreDuplicates(c, d) == c.url = d.url \/ LowerName(c.title) = LowerName(d.title)

\* The citation the i-th candidate makes, if it makes one.
Candidate(i) == create_citation_from_match(cit_candidates[i], 0)

\* The returned list holds the citation of the j-th candidate, and no
\* candidate before it makes the same citation.
IsRetained(j) ==
    /\ Candidate(j) # None
    /\ \E k \in 1..Len(cit_returned[1]) :
          /\ cit_returned[1][k].url = Candidate(j)[1].url
          /\ cit_returned[1][k].title = Candidate(j)[1].title
    /\ \A i \in 1..(j - 1) : Candidate(i) # Candidate(j)

\* No two citations of the returned list are duplicates.
NoDuplicatesReturned ==
    cit_returned # None =>
        \A i, j \in 1..Len(cit_returned[1]) :
            i # j => ~AreDuplicates(cit_returned[1][i], cit_returned[1][j])

\* C24: no two citations of the list extract_citations returns have the same
\* URL or titles equal but for their case, and of candidates that are
\* duplicates only the first one encountered is retained: a candidate that
\* has a duplicate before it is not in the list. Two candidates with one URL
\* and different titles give exactly one citation.
C24_OnlyFirstOfDuplicatesRetained ==
    cit_returned # None =>
        /\ NoDuplicatesReturned
        /\ \A j \in 1..Len(cit_candidates) : \A i \in 1..(j - 1) :
              (Candidate(i) # None /\ Candidate(j) # None
               /\ AreDuplicates(Candidate(i)[1], Candidate(j)[1])) => ~IsRetained(j)
        /\ cit_candidates = <<Match(<<"n">>, <<"https://", "u">>),
                              Match(<<"o">>, <<"https://", "u">>)>>
              => Len(cit_returned[1]) = 1

\* Two superscript tags of the text follow each other with nothing but
\* blanks and at most one comma between them.
HasAdjacentTags(text) ==
    \E i, j \in 1..Len(text) :
        /\ i < j /\ text[i] = "</sup>" /\ text[j] = "<sup>"
        /\ \A k \in (i + 1)..(j - 1) : text[k] \in {" ", ","}
        /\ Cardinality({k \in (i + 1)..(j - 1) : text[k] = ","}) <= 1

\* The numbers a text lists, in its order.
RECURSIVE ListedNumbers(_)
ListedNumbers(s) ==
    IF s = <<>> THEN <<>>
    ELSE IF IsDigit(Head(s))
    THEN <<ToInt(SubSeq(s, 1, SpanDigits(s)))>> \o ListedNumbers(Drop(s, SpanDigits(s)))
    ELSE ListedNumbers(Tail(s))

\* The indices of every superscript tag of the text ascend strictly.
TagsAscend(text) ==
    \A i, j \in 1..Len(text) :
        (/\ i < j /\ text[i] = "<sup>" /\ text[j] = "</sup>"
         /\ \A k \in (i + 1)..(j - 1) : text[k] # "</sup>")
        => LET listed == ListedNumbers(SubSeq(text, i + 1, j - 1))
           IN \A a, b \in 1..Len(listed) : a < b => listed[a] < listed[b]

\* Every run of adjacent markers has become one tag of ascending indices.
IsConsolidated(text) ==
    /\ \A i \in 1..Len(text) : text[i] \notin Markers
    /\ ~HasAdjacentTags(text)
    /\ TagsAscend(text)

\* C25: in the output of the superscript conversion every run of adjacent
\* citation markers, with blanks or a comma between them or nothing, is one
\* superscript tag whose indices ascend strictly, in whatever order the
\* markers came; the markers 5, 4, 5 give one tag that lists 4,5.
C25_MarkersConsolidated ==
    sup_output # None =>
        /\ IsConsolidated(sup_output[1].text)
        /\ sup_content \in {<<"#3:5#", ",", "#3:4#", ",", "#3:5#">>,
                             <<"[", "5", "]", "[", "4", "]", "[", "5", "]">>}
              => sup_output[1].text = <<"<sup>", "4", ",", "5", "</sup>">>

\* The same of convert_citations_to_superscript alone.
LegacyConversionConsolidates ==
    (sup_output # None /\ sup_output[1].function = "convert_citations_to_superscript") =>
        /\ IsConsolidated(sup_output[1].text)
        /\ sup_content = <<"#3:5#", ",", "#3:4#", ",", "#3:5#">>
              => sup_output[1].text = <<"<sup>", "4", ",", "5", "</sup>">>

\* C26: at every moment at most 2 research executions of one ResearchService
\* are running, and an asynchronous request submitted while both workers are
\* busy waits in the queue: it starts only in a step in which fewer than 2
\* executions were running.
C26_AtMostTwoExecutions ==
    /\ [](Cardinality(Executing) <= 2)
    /\ [][\A c \in Callers :
            (ex_tasks[c] = "queued" /\ ex_tasks'[c] = "running")
            => Cardinality(Executing) < 2]_vars

\* The same of the executions the executor runs: at most max_workers at a
\* time, and a queued one starts only when a worker is free.
WorkersAtMostTwo ==
    /\ [](Cardinality(OnWorkers) <= 2)
    /\ [][\A c \in Callers :
            (ex_tasks[c] = "queued" /\ ex_tasks'[c] = "running")
            => Cardinality(OnWorkers) < 2]_vars

\* C28: polling is bounded by elapsed time as well as by the count of
\* iterations: the loop starts no pass once the time spent in the execution
\* has reached timeout_seconds of the request, and an execution whose
\* polling took that long returns a failure result.
C28_PollingBoundedByTime ==
    /\ pc = "poll" => slept_seconds(iteration) < request.timeout_seconds
    /\ (Returned /\ slept_seconds(iteration) >= request.timeout_seconds)
          => ~result[1].success

BothWritten == \A w \in WriterThreads : writers[w].pc = "done"

\* C29: when two writers have written one path with the atomic write_json,
\* in whatever order their steps came, the file holds the complete data of
\* the writer whose move ended last, not a mixture and not a truncated file,
\* and no temporary file of either writer remains.
C29_LastWriterWins ==
    BothWritten =>
        /\ \E w \in WriterThreads :
              writers[w].order = 2 /\ wr_target = Some(WriterData(w))
        /\ \A w \in WriterThreads : writers[w].temp = None

\* The same where os.rename replaces an existing target.
LastWriterWinsOnPosix == platform = "posix" => C29_LastWriterWins

IsCovered(match, citations) ==
    LET citation == create_citation_from_match(match, 0)
    IN \E j \in 1..Len(citations) :
          \/ citations[j].url = citation[1].url
          \/ LowerName(citations[j].title) = LowerName(citation[1].title)

\* C31: the list of extract_citations never holds more than max_citations
\* entries, and its indices are 1, 2, ..., n in the order of the list; a
\* candidate that fails validation takes no index and does not end the
\* extraction: unless the limit ended it, every valid candidate is in the
\* list returned or is a duplicate of one that is.
C31_CitationsBoundedAndNumbered ==
    /\ Len(cit_citations) <= cit_limit
    /\ \A i \in 1..Len(cit_citations) : cit_citations[i].index = i
    /\ cit_index = Len(cit_citations) + 1
    /\ cit_returned # None =>
          /\ cit_returned[1] = cit_citations
          /\ Len(cit_returned[1]) < cit_limit =>
                \A k \in 1..Len(cit_candidates) :
                    create_citation_from_match(cit_candidates[k], 0) # None
                    => IsCovered(cit_candidates[k], cit_returned[1])

\* The first candidate has no valid URL and the two after it are distinct
\* citations: both are returned, numbered 1 and 2, at the limit of 2.
C31_Witness ==
    /\ cit_returned # None /\ cit_limit = 2
    /\ Len(cit_candidates) = 3
    /\ create_citation_from_match(cit_candidates[1], 1) = None
    /\ Len(cit_returned[1]) = 2
    /\ cit_returned[1][1].url = Strip(cit_candidates[2].url)
    /\ cit_returned[1][2].url = Strip(cit_candidates[3].url)
    /\ cit_returned[1][2].index = 2

\* The listing holds an agent that an earlier call of the service created.
HoldsCreatedAgent(agents) ==
    \E i \in 1..Len(agents) : agents[i].name = new_research_agent(agents[i].id).name

\* C32: an agent that an earlier execute call created is found by the agent
\* discovery of every later call against the same remote service and used
\* again, so the later call creates no agent.
C32_CreatedAgentIsReused ==
    (listed_agents # None /\ HoldsCreatedAgent(listed_agents[1]))
        => /\ created.agents = 0
           /\ pc # "create_agent"

\* The positions of the progress events that report progress 1.0.
FinalEvents == {i \in 1..Len(events) : events[i].progress.num = events[i].progress.den}

\* C33: a call with a progress callback that does not raise reports
\* progress 1.0 exactly once, as its last progress event, when it returns a
\* success and when it returns a failure; no progress event follows that one.
C33_FinalProgressOnceAndLast ==
    progress_callback = "reliable" =>
        /\ FinalEvents \subseteq {Len(events)}
        /\ FinalEvents # {} => Ended
        /\ Ended => FinalEvents = {Len(events)} /\ events # <<>>

\* A call whose run failed while it was polled has returned its failure:
\* the event of the failure is the last one and the only one at 1.0.
C33_Witness ==
    /\ Returned /\ progress_callback = "reliable" /\ ~result[1].success
    /\ polls >= 2
    /\ Len(events) >= 4
    /\ events[Len(events)].progress = Progress(10)
    /\ events[Len(events)].message = "Research failed"

\* C34: a call that is suppressed does not reach the sink and leaves the last
\* call time and the last progress as they were; so does a forwarded call
\* whose sink raises, and its exception does not leave the callback. The next
\* call is therefore compared with the last event the sink took.
C34_UndeliveredCallChangesNothing ==
    /\ [](decision # None =>
            LET d == decision[1]
            IN /\ ~d.forwarded => ~d.returned
               /\ ~d.returned =>
                     /\ last_call_time = d.prev_call_time
                     /\ last_progress = d.prev_progress)
    /\ [][decision' # decision =>
            /\ decision'[1].prev_call_time = last_call_time
            /\ decision'[1].prev_progress = last_progress
            /\ \E t \in ProducerThreads :
                  producers[t].pc = "at_lock" /\ producers'[t] = IdleProducer]_vars

\* The sink has raised on a forwarded call with a new progress, after a
\* call was suppressed: the last progress is the one of the call before.
C34_Witness ==
    /\ decision # None
    /\ decision[1].forwarded /\ ~decision[1].returned
    /\ decision[1].progress # decision[1].prev_progress
    /\ decision[1].current_time # decision[1].prev_call_time
    /\ last_progress = decision[1].prev_progress
    /\ last_call_time = decision[1].prev_call_time
    /\ \E i \in 1..Len(calls) : ~calls[i].forwarded

\* C35: after any sequence of add_progress_message and clear_progress_messages
\* calls the session holds at most 20 progress messages, and they are the
\* most recently added ones since the latest clear, in the order they were
\* added.
C35_LatestTwentyKept ==
    /\ Len(session.progress_messages) <= 20
    /\ session.progress_messages = LastOf(ses_added, 20)

\* More than 20 messages were added since the latest clear.
C35_Witness ==
    /\ Len(ses_added) > 20
    /\ Len(session.progress_messages) = 20

\* A thread has returned from the method in this step.
Returns(t, method) ==
    /\ ses_threads[t].method = method
    /\ ses_threads'[t].pc = "idle"

\* C36: whenever no thread is inside a method of the session manager, the
\* session does not have research_running true together with an
\* error_message; set_error and set_research_result return with
\* research_running false, and set_research_running(True) returns with no
\* progress messages and no error_message.
C36_RunningExcludesError ==
    /\ [](ses_lock = None => ~(session.research_running /\ session.error_message # None))
    /\ [][\A t \in SessionThreads :
            /\ Returns(t, "set_error") \/ Returns(t, "set_research_result")
                  => ~session'.research_running
            /\ Returns(t, "set_research_running") /\ ses_threads[t].arg = Some(TRUE)
                  => /\ session'.progress_messages = <<>>
                     /\ session'.error_message = None
                     /\ session'.research_running]_vars

\* set_research_running(True) has set the flag and has yet to clear the
\* messages and the error that the session holds.
C36_Witness ==
    \E t \in SessionThreads :
        /\ ses_threads[t].method = "set_research_running"
        /\ ses_threads[t].pc = "clear"
        /\ session.research_running
        /\ session.error_message # None
        /\ session.progress_messages # <<>>

\* Messages of a research started after the stop stand before a message of
\* the stopped research.
Interleaved ==
    \E r, q \in WebRuns : \E i, j \in DOMAIN session.progress_messages :
        /\ q \in web_runs[r].follows
        /\ i < j
        /\ session.progress_messages[i].run = r
        /\ session.progress_messages[j].run = q

\* C37: a research that was executing on a worker when the user stopped it
\* adds no progress message to the session after the stop, and the messages
\* of a research started afterwards are not interleaved with messages of the
\* stopped one.
C37_StoppedRunIsSilent ==
    /\ \A r \in WebRuns : web_runs[r].after_stop = 0
    /\ ~Interleaved

\* The session shows the research as over, with its result or with an error.
Outcome(r) ==
    /\ ~session.research_running
    /\ \/ /\ web_runs[r].outcome # None
          /\ session.research_result = Some(result_dict(r, web_runs[r].outcome[1]))
       \/ session.error_message # None

\* C38: a research that is started and that the user does not stop is in the
\* end shown as over, with its result or with an error, and its completion
\* is handled once and no more.
C38_StartedResearchCompletes ==
    /\ \A r \in WebRuns :
          web_runs[r].worker # "none"
              ~> (web_runs[r].stopped # "no" \/ (Outcome(r) /\ web_runs[r].handled = 1))
    /\ [](\A r \in WebRuns : web_runs[r].handled <= 1)

\* Start Research is the only button pressed, and it is pressed once.
Undisturbed(r) ==
    /\ web_clicks = 0
    /\ \A q \in WebRuns \ {r} : web_runs[q].worker = "none"

\* The same for a research in a session that is left alone.
CompletesWhenLeftAlone ==
    /\ \A r \in WebRuns :
          web_runs[r].worker # "none"
              ~> (~Undisturbed(r) \/ (Outcome(r) /\ web_runs[r].handled = 1))
    /\ [](\A r \in WebRuns : web_runs[r].handled <= 1)

\* The pass of the loop of run_deep_research taken in this step has fetched
\* the latest agent message.
Fetches ==
    /\ rdr_iteration_count' # rdr_iteration_count
    /\ rdr_pc' # "raised"

\* C40: in every pass of the polling loop the fetch calls the progress
\* callback and appends to the progress file only when the latest agent
\* message is a cot_summary whose id is not last_message_id, and it then
\* returns the id of that message; in every other case it returns
\* last_message_id as it was, calls nothing and writes nothing. So no message
\* is reported twice in a row.
C40_NewSummariesOnly ==
    [][Fetches =>
         LET response == rdr_fetched'[1].response
         IN IF /\ response # None
               /\ response[1].cot
               /\ Some(response[1].id) # rdr_last_message_id
            THEN /\ rdr_progress_writes' = rdr_progress_writes + 1
                 /\ rdr_progress_calls' =
                        rdr_progress_calls + (IF rdr_progress_callback = "none" THEN 0 ELSE 1)
                 /\ rdr_last_message_id' = Some(response[1].id)
                 /\ rdr_last_message_id' # rdr_last_message_id
            ELSE UNCHANGED <<rdr_progress_writes, rdr_progress_calls,
                             rdr_last_message_id>>]_vars

\* The message that was reported is fetched once more and is not reported;
\* a callback was given.
C40_Witness ==
    /\ rdr_progress_callback = "reliable"
    /\ rdr_fetched # None
    /\ rdr_fetched[1].response # None
    /\ rdr_fetched[1].response[1].cot
    /\ Some(rdr_fetched[1].response[1].id) = rdr_last_message_id
    /\ ~rdr_fetched[1].new_content_found
    /\ rdr_progress_writes >= 2

\* The urls of the annotations, each where it appears first.
RECURSIVE DistinctUrls(_, _)
DistinctUrls(annotations, seen) ==
    IF annotations = <<>> THEN <<>>
    ELSE IF Head(annotations).url \in seen THEN DistinctUrls(Tail(annotations), seen)
    ELSE <<Head(annotations).url>>
             \o DistinctUrls(Tail(annotations), seen \cup {Head(annotations).url})

\* C39: the references section lists every distinct url of the message's
\* citation annotations once, in the order of first appearance, numbered
\* 1..n without gaps or repeats.
C39_EveryUrlListedOnce ==
    ref_written # None =>
        LET lines == ref_written[1]
            urls == DistinctUrls(ref_annotations, {})
        IN /\ Len(lines) = Len(urls)
           /\ \A i \in DOMAIN lines :
                 lines[i].number = i /\ lines[i].citation.url = urls[i]

\* What does hold: the lines are numbered 1..n, no url is listed twice, the
\* listed urls are urls of the annotations in the order of first appearance,
\* and the first annotation is always listed.
ReferencesNumbered ==
    ref_written # None =>
        LET lines == ref_written[1]
            urls == DistinctUrls(ref_annotations, {})
        IN /\ \A i \in DOMAIN lines : lines[i].number = i
           /\ \A i, j \in DOMAIN lines :
                 i < j => \E k, l \in DOMAIN urls :
                             k < l /\ urls[k] = lines[i].citation.url
                                   /\ urls[l] = lines[j].citation.url
           /\ ref_annotations # <<>> => lines # <<>> /\ lines[1].citation.url = urls[1]

====
